---- MODULE Spec2Model ----
(***************************************************************************)
(* A model of the Flask blog application: the Author and Blog tables, the  *)
(* add_blog request handler, the seeding commands, Author deletion through *)
(* the ORM cascade and the Blog counter methods.                           *)
(*                                                                         *)
(* Text is a sequence of one-character strings, so that trimming, case     *)
(* folding, the regular expressions and the date formats are computed      *)
(* character by character, as the Python code computes them.               *)
(***************************************************************************)
EXTENDS Integers, Sequences, FiniteSets, TLC

---------------------------------------------------------------------------
(* Characters and text                                                     *)

LowerLetters == <<"a","b","c","d","e","f","g","h","i","j","k","l","m",
                  "n","o","p","q","r","s","t","u","v","w","x","y","z">>

UpperLetters == <<"A","B","C","D","E","F","G","H","I","J","K","L","M",
                  "N","O","P","Q","R","S","T","U","V","W","X","Y","Z">>

DigitChars == <<"0","1","2","3","4","5","6","7","8","9">>

Range(s) == {s[i] : i \in 1..Len(s)}

LowerSet == Range(LowerLetters)

UpperSet == Range(UpperLetters)

DigitSet == Range(DigitChars)

IsLower(c) == c \in LowerSet

IsUpper(c) == c \in UpperSet

IsLetter(c) == IsLower(c) \/ IsUpper(c)

IsDigit(c) == c \in DigitSet

\* \s of the re module, and the characters str.strip() removes
IsSpace(c) == c \in {" ", "\t", "\n", "\r", "\f"}

\* \w of the re module
IsWord(c) == IsLetter(c) \/ IsDigit(c) \/ c = "_"

\* str.lower() on one character
LowerChar(c) ==
    IF IsUpper(c)
    THEN LowerLetters[CHOOSE i \in 1..26 : UpperLetters[i] = c]
    ELSE c

\* str.lower()
Lower(s) == [i \in 1..Len(s) |-> LowerChar(s[i])]

\* the first index from i upwards that holds no whitespace
RECURSIVE SkipSpacesUp(_, _)
SkipSpacesUp(s, i) ==
    IF i > Len(s) \/ ~IsSpace(s[i]) THEN i ELSE SkipSpacesUp(s, i + 1)

\* the last index from i downwards that holds no whitespace
RECURSIVE SkipSpacesDown(_, _)
SkipSpacesDown(s, i) ==
    IF i < 1 \/ ~IsSpace(s[i]) THEN i ELSE SkipSpacesDown(s, i - 1)

\* str.strip()
Strip(s) == SubSeq(s, SkipSpacesUp(s, 1), SkipSpacesDown(s, Len(s)))

\* s[:n]
Prefix(s, n) == SubSeq(s, 1, IF Len(s) < n THEN Len(s) ELSE n)

\* the value of a run of decimal digits
RECURSIVE DigitsValue(_)
DigitsValue(s) ==
    IF s = <<>> THEN 0
    ELSE 10 * DigitsValue(SubSeq(s, 1, Len(s) - 1))
         + ((CHOOSE i \in 1..10 : DigitChars[i] = s[Len(s)]) - 1)

\* the decimal digits of a natural number
RECURSIVE NatDigits(_)
NatDigits(n) ==
    IF n < 10 THEN <<DigitChars[n + 1]>>
    ELSE NatDigits(n \div 10) \o <<DigitChars[(n % 10) + 1]>>

\* a number zero-padded to at least w digits
ZeroPad(n, w) ==
    LET d == NatDigits(n)
    IN  IF Len(d) >= w THEN d ELSE [i \in 1..(w - Len(d)) |-> "0"] \o d

\* the pieces of s between the occurrences of the separator character
RECURSIVE SplitOn(_, _)
SplitOn(s, sep) ==
    IF \A i \in 1..Len(s) : s[i] # sep THEN <<s>>
    ELSE LET k == CHOOSE i \in 1..Len(s) :
                     s[i] = sep /\ \A j \in 1..(i - 1) : s[j] # sep
         IN  <<SubSeq(s, 1, k - 1)>> \o SplitOn(SubSeq(s, k + 1, Len(s)), sep)

---------------------------------------------------------------------------
(* validate_email: ^[a-zA-Z0-9._%+-]+@[a-zA-Z0-9.-]+\.[a-zA-Z]{2,}$        *)

IsEmailLocalChar(c) == IsLetter(c) \/ IsDigit(c) \/ c \in {".", "_", "%", "+", "-"}

IsEmailDomainChar(c) == IsLetter(c) \/ IsDigit(c) \/ c \in {".", "-"}

\* the pattern matched against the whole of s
EmailPatternMatches(s) ==
    \E at \in 1..Len(s) : \E dot \in (at + 1)..Len(s) :
        /\ s[at] = "@"
        /\ s[dot] = "."
        /\ at > 1
        /\ \A i \in 1..(at - 1) : IsEmailLocalChar(s[i])
        /\ dot > at + 1
        /\ \A i \in (at + 1)..(dot - 1) : IsEmailDomainChar(s[i])
        /\ Len(s) - dot >= 2
        /\ \A i \in (dot + 1)..Len(s) : IsLetter(s[i])

\* re.match with a trailing $: $ also matches just before a final newline
validate_email(email) ==
    \/ EmailPatternMatches(email)
    \/ /\ Len(email) > 0
       /\ email[Len(email)] = "\n"
       /\ EmailPatternMatches(SubSeq(email, 1, Len(email) - 1))

---------------------------------------------------------------------------
(* Blog._generate_slug                                                     *)

IsSlugSeparator(c) == c = "-" \/ IsSpace(c)

\* re.sub(r'[-\s]+', '-', s): every maximal run of separators becomes one hyphen
CollapseSeparators(s) ==
    LET mark == [i \in 1..Len(s) |->
                    IF ~IsSlugSeparator(s[i]) THEN s[i]
                    ELSE IF i > 1 /\ IsSlugSeparator(s[i - 1]) THEN "" ELSE "-"]
    IN  SelectSeq(mark, LAMBDA c : c # "")

SlugMaxLen == 50

\* the slug without its cut to 50 characters
generate_slug_uncut(title) ==
    LET kept == SelectSeq(Lower(title), LAMBDA c : IsWord(c) \/ IsSpace(c) \/ c = "-")
    IN  CollapseSeparators(kept)

\* Blog._generate_slug
generate_slug(title) ==
    LET kept == SelectSeq(Lower(title), LAMBDA c : IsWord(c) \/ IsSpace(c) \/ c = "-")
    IN  Prefix(CollapseSeparators(kept), SlugMaxLen)

---------------------------------------------------------------------------
(* Blog._generate_excerpt                                                  *)

\* ' '.join(content.split()): the words of the content, one space between
JoinWords(content) ==
    LET t == Strip(content)
        mark == [i \in 1..Len(t) |->
                    IF ~IsSpace(t[i]) THEN t[i]
                    ELSE IF IsSpace(t[i - 1]) THEN "" ELSE " "]
    IN  SelectSeq(mark, LAMBDA c : c # "")

\* s.rfind(c): the index, counted from 0, of the last c in s, or -1
RFind(s, c) ==
    LET at == {i \in 1..Len(s) : s[i] = c}
    IN  IF at = {} THEN -1
        ELSE (CHOOSE i \in at : \A j \in at : j <= i) - 1

\* max() of three numbers
Max3(a, b, c) ==
    IF a >= b /\ a >= c THEN a ELSE IF b >= c THEN b ELSE c

ExcerptLen == 150

SentenceBreakMin == 100

\* the test of the sentence break with the bound included
ReasonableBreakFrom(last_sentence_end) == last_sentence_end >= SentenceBreakMin

\* a sentence break far enough in to cut there
ReasonableBreak(last_sentence_end) == last_sentence_end > SentenceBreakMin

Ellipsis == <<".", ".", ".">>

generate_excerpt(content) ==
    LET clean_content == JoinWords(content)
        excerpt == SubSeq(clean_content, 1, ExcerptLen)
        last_sentence_end ==
            Max3(RFind(excerpt, "."), RFind(excerpt, "!"), RFind(excerpt, "?"))
        last_space == RFind(excerpt, " ")
    IN  IF Len(clean_content) <= ExcerptLen THEN clean_content
        ELSE IF ReasonableBreak(last_sentence_end)
        THEN SubSeq(excerpt, 1, last_sentence_end + 1)
        ELSE IF last_space > 0 THEN SubSeq(excerpt, 1, last_space) \o Ellipsis
        ELSE excerpt \o Ellipsis

\* String(300) of the excerpt column
ExcerptColumn == 300

---------------------------------------------------------------------------
(* validate_date: strptime with three formats, strftime('%d-%m-%Y')        *)

\* %Y of strptime: \d\d\d\d
MatchesYear(s) == Len(s) = 4 /\ \A i \in 1..4 : IsDigit(s[i])

\* %m of strptime: 1[0-2]|0[1-9]|[1-9]
MatchesMonth(s) ==
    \/ Len(s) = 2 /\ s[1] = "1" /\ s[2] \in {"0", "1", "2"}
    \/ Len(s) = 2 /\ s[1] = "0" /\ IsDigit(s[2]) /\ s[2] # "0"
    \/ Len(s) = 1 /\ IsDigit(s[1]) /\ s[1] # "0"

\* %d of strptime: 3[0-1]|[1-2]\d|0[1-9]|[1-9]| [1-9]
MatchesDay(s) ==
    \/ Len(s) = 2 /\ s[1] = "3" /\ s[2] \in {"0", "1"}
    \/ Len(s) = 2 /\ s[1] \in {"1", "2"} /\ IsDigit(s[2])
    \/ Len(s) = 2 /\ s[1] = "0" /\ IsDigit(s[2]) /\ s[2] # "0"
    \/ Len(s) = 1 /\ IsDigit(s[1]) /\ s[1] # "0"
    \/ Len(s) = 2 /\ s[1] = " " /\ IsDigit(s[2]) /\ s[2] # "0"

IsLeapYear(y) == (y % 4 = 0 /\ y % 100 # 0) \/ y % 400 = 0

DaysInMonth(y, m) ==
    IF m = 2 THEN (IF IsLeapYear(y) THEN 29 ELSE 28)
    ELSE IF m \in {4, 6, 9, 11} THEN 30 ELSE 31

\* datetime accepts the date: MINYEAR is 1
IsCalendarDate(y, m, d) == y >= 1 /\ m \in 1..12 /\ d \in 1..DaysInMonth(y, m)

NoDate == [ok |-> FALSE, y |-> 0, m |-> 0, d |-> 0]

\* the int() of a %d field, whose only non-digit can be a leading space
DayValue(s) == DigitsValue(SelectSeq(s, IsDigit))

\* datetime.strptime(s, fmt) for a format of three fields joined by sep;
\* order names the field at each position
Strptime(s, sep, order) ==
    LET parts == SplitOn(s, sep)
        at(f) == parts[CHOOSE i \in 1..3 : order[i] = f]
    IN  IF Len(parts) # 3 THEN NoDate
        ELSE IF ~(MatchesYear(at("Y")) /\ MatchesMonth(at("m")) /\ MatchesDay(at("d")))
        THEN NoDate
        ELSE LET y == DigitsValue(at("Y"))
                 m == DigitsValue(at("m"))
                 d == DayValue(at("d"))
             IN  IF IsCalendarDate(y, m, d)
                 THEN [ok |-> TRUE, y |-> y, m |-> m, d |-> d]
                 ELSE NoDate

\* the formats of validate_date, in the order they are tried
DateFormats ==
    << [sep |-> "-", order |-> <<"Y", "m", "d">>],
       [sep |-> "-", order |-> <<"d", "m", "Y">>],
       [sep |-> "/", order |-> <<"m", "d", "Y">>] >>

\* %Y of strftime: the C library decides whether a year below 1000 is
\* zero-padded to four digits (padYear) or printed as it is
StrftimeYear(y, padYear) == IF padYear THEN ZeroPad(y, 4) ELSE NatDigits(y)

\* date_obj.strftime('%d-%m-%Y')
Strftime(dt, padYear) ==
    ZeroPad(dt.d, 2) \o <<"-">> \o ZeroPad(dt.m, 2) \o <<"-">> \o StrftimeYear(dt.y, padYear)

\* the value None
None == <<"None">>

validate_date(date_string, padYear) ==
    LET parsed == [i \in 1..3 |->
                      Strptime(date_string, DateFormats[i].sep, DateFormats[i].order)]
        hits == {i \in 1..3 : parsed[i].ok}
    IN  IF hits = {} THEN None
        ELSE Strftime(parsed[CHOOSE i \in hits : \A j \in hits : i <= j], padYear)

---------------------------------------------------------------------------
(* The sample data of the seeding commands                                 *)

\* init_db: the sample author
SampleAuthorName == <<"J","o","h","n"," ","D","o","e">>

SampleAuthorEmail == <<"j","o","h","n","@","e","x","a","m","p","l","e",".","c","o","m">>

\* init_db: the sample blog
SampleBlogTitle ==
    <<"W","e","l","c","o","m","e"," ","t","o"," ","O","u","r"," ","B","l",
      "o","g">>

SampleBlogContent ==
    <<"T","h","i","s"," ","i","s"," ","a"," ","s","a","m","p","l","e"," ",
      "b","l","o","g"," ","p","o","s","t"," ","t","o"," ","d","e","m","o",
      "n","s","t","r","a","t","e"," ","t","h","e"," ","f","e","a","t","u",
      "r","e","s"," ","o","f"," ","o","u","r"," ","b","l","o","g","g","i",
      "n","g"," ","p","l","a","t","f","o","r","m","."," ","Y","o","u"," ",
      "c","a","n"," ","w","r","i","t","e"," ","a","m","a","z","i","n","g",
      " ","s","t","o","r","i","e","s",","," ","s","h","a","r","e"," ","y",
      "o","u","r"," ","t","h","o","u","g","h","t","s",","," ","a","n","d",
      " ","c","o","n","n","e","c","t"," ","w","i","t","h"," ","r","e","a",
      "d","e","r","s"," ","f","r","o","m"," ","a","r","o","u","n","d"," ",
      "t","h","e"," ","w","o","r","l","d",".">>

SampleBlogDate == <<"0","1","-","0","1","-","2","0","2","4">>

\* authors_data of seed_database

SeedAuthorsData ==
    << [name  |-> <<"A","l","i","c","e"," ","J","o","h","n","s","o","n">>,
        email |-> <<"a","l","i","c","e","@","e","x","a","m","p","l","e",".",
                    "c","o","m">>],
       [name  |-> <<"B","o","b"," ","S","m","i","t","h">>,
        email |-> <<"b","o","b","@","e","x","a","m","p","l","e",".","c","o",
                    "m">>],
       [name  |-> <<"C","a","r","o","l"," ","D","a","v","i","s">>,
        email |-> <<"c","a","r","o","l","@","e","x","a","m","p","l","e",".",
                    "c","o","m">>] >>

\* blogs_data[1] of seed_database: its content (856 characters)

SeedContent1 ==
    <<"F","l","a","s","k"," ","i","s"," ","a"," ","l","i","g","h","t","w",
      "e","i","g","h","t"," ","a","n","d"," ","p","o","w","e","r","f","u",
      "l"," ","w","e","b"," ","f","r","a","m","e","w","o","r","k"," ","f",
      "o","r"," ","P","y","t","h","o","n"," ","t","h","a","t"," ","m","a",
      "k","e","s"," ","i","t"," ","e","a","s","y"," ","t","o"," ","b","u",
      "i","l","d"," ","w","e","b"," ","a","p","p","l","i","c","a","t","i",
      "o","n","s"," ","q","u","i","c","k","l","y","."," ","I","n"," ","t",
      "h","i","s"," ","c","o","m","p","r","e","h","e","n","s","i","v","e",
      " ","g","u","i","d","e",","," ","w","e","'","l","l"," ","e","x","p",
      "l","o","r","e"," ","t","h","e"," ","f","u","n","d","a","m","e","n",
      "t","a","l","s"," ","o","f"," ","F","l","a","s","k"," ","d","e","v",
      "e","l","o","p","m","e","n","t",".","\n","\n","F","l","a","s","k"," ",
      "f","o","l","l","o","w","s"," ","t","h","e"," ","W","S","G","I"," ",
      "(","W","e","b"," ","S","e","r","v","e","r"," ","G","a","t","e","w",
      "a","y"," ","I","n","t","e","r","f","a","c","e",")"," ","s","t","a",
      "n","d","a","r","d"," ","a","n","d"," ","i","s"," ","b","u","i","l",
      "t"," ","o","n"," ","t","h","e"," ","W","e","r","k","z","e","u","g",
      " ","t","o","o","l","k","i","t"," ","a","n","d"," ","J","i","n","j",
      "a","2"," ","t","e","m","p","l","a","t","i","n","g"," ","e","n","g",
      "i","n","e","."," ","W","h","a","t"," ","m","a","k","e","s"," ","F",
      "l","a","s","k"," ","s","p","e","c","i","a","l"," ","i","s"," ","i",
      "t","s"," ","s","i","m","p","l","i","c","i","t","y"," ","a","n","d",
      " ","f","l","e","x","i","b","i","l","i","t","y"," ","-"," ","i","t",
      " ","p","r","o","v","i","d","e","s"," ","t","h","e"," ","e","s","s",
      "e","n","t","i","a","l"," ","t","o","o","l","s"," ","y","o","u"," ",
      "n","e","e","d"," ","w","i","t","h","o","u","t"," ","f","o","r","c",
      "i","n","g"," ","y","o","u"," ","i","n","t","o"," ","a"," ","s","p",
      "e","c","i","f","i","c"," ","p","r","o","j","e","c","t"," ","s","t",
      "r","u","c","t","u","r","e"," ","o","r"," ","r","e","q","u","i","r",
      "i","n","g"," ","m","a","n","y"," ","d","e","p","e","n","d","e","n",
      "c","i","e","s"," ","b","y"," ","d","e","f","a","u","l","t",".","\n",
      "\n","G","e","t","t","i","n","g"," ","s","t","a","r","t","e","d"," ",
      "w","i","t","h"," ","F","l","a","s","k"," ","i","s"," ","s","t","r",
      "a","i","g","h","t","f","o","r","w","a","r","d","."," ","Y","o","u",
      " ","c","a","n"," ","c","r","e","a","t","e"," ","a"," ","s","i","m",
      "p","l","e"," ","w","e","b"," ","a","p","p","l","i","c","a","t","i",
      "o","n"," ","w","i","t","h"," ","j","u","s","t"," ","a"," ","f","e",
      "w"," ","l","i","n","e","s"," ","o","f"," ","c","o","d","e","."," ",
      "T","h","e"," ","f","r","a","m","e","w","o","r","k"," ","p","r","o",
      "v","i","d","e","s"," ","r","o","u","t","i","n","g",","," ","t","e",
      "m","p","l","a","t","i","n","g",","," ","r","e","q","u","e","s","t",
      " ","h","a","n","d","l","i","n","g",","," ","a","n","d"," ","s","e",
      "s","s","i","o","n"," ","m","a","n","a","g","e","m","e","n","t"," ",
      "o","u","t"," ","o","f"," ","t","h","e"," ","b","o","x","."," ","W",
      "h","e","t","h","e","r"," ","y","o","u","'","r","e"," ","b","u","i",
      "l","d","i","n","g"," ","a"," ","s","m","a","l","l"," ","p","e","r",
      "s","o","n","a","l"," ","p","r","o","j","e","c","t"," ","o","r"," ",
      "a"," ","l","a","r","g","e","-","s","c","a","l","e"," ","a","p","p",
      "l","i","c","a","t","i","o","n",","," ","F","l","a","s","k"," ","c",
      "a","n"," ","a","d","a","p","t"," ","t","o"," ","y","o","u","r"," ",
      "n","e","e","d","s",".">>

\* blogs_data[2] of seed_database: its content (753 characters)

SeedContent2 ==
    <<"W","e","b"," ","d","e","s","i","g","n"," ","h","a","s"," ","e","v",
      "o","l","v","e","d"," ","s","i","g","n","i","f","i","c","a","n","t",
      "l","y"," ","o","v","e","r"," ","t","h","e"," ","p","a","s","t"," ",
      "d","e","c","a","d","e","."," ","T","o","d","a","y","'","s"," ","w",
      "e","b"," ","d","e","s","i","g","n","e","r","s"," ","m","u","s","t",
      " ","c","o","n","s","i","d","e","r"," ","u","s","e","r"," ","e","x",
      "p","e","r","i","e","n","c","e",","," ","a","c","c","e","s","s","i",
      "b","i","l","i","t","y",","," ","p","e","r","f","o","r","m","a","n",
      "c","e",","," ","a","n","d"," ","m","o","b","i","l","e"," ","r","e",
      "s","p","o","n","s","i","v","e","n","e","s","s"," ","a","s"," ","c",
      "o","r","e"," ","p","r","i","n","c","i","p","l","e","s",".","\n","\n",
      "M","o","d","e","r","n"," ","w","e","b"," ","d","e","s","i","g","n",
      " ","e","m","p","h","a","s","i","z","e","s"," ","c","l","e","a","n",
      ","," ","m","i","n","i","m","a","l","i","s","t"," ","l","a","y","o",
      "u","t","s"," ","t","h","a","t"," ","p","r","i","o","r","i","t","i",
      "z","e"," ","c","o","n","t","e","n","t"," ","a","n","d"," ","u","s",
      "e","r"," ","i","n","t","e","r","a","c","t","i","o","n","."," ","T",
      "h","e"," ","u","s","e"," ","o","f"," ","w","h","i","t","e"," ","s",
      "p","a","c","e",","," ","t","y","p","o","g","r","a","p","h","y",",",
      " ","a","n","d"," ","c","o","l","o","r"," ","p","s","y","c","h","o",
      "l","o","g","y"," ","p","l","a","y","s"," ","a"," ","c","r","u","c",
      "i","a","l"," ","r","o","l","e"," ","i","n"," ","c","r","e","a","t",
      "i","n","g"," ","e","n","g","a","g","i","n","g"," ","u","s","e","r",
      " ","e","x","p","e","r","i","e","n","c","e","s","."," ","R","e","s",
      "p","o","n","s","i","v","e"," ","d","e","s","i","g","n"," ","i","s",
      " ","n","o"," ","l","o","n","g","e","r"," ","o","p","t","i","o","n",
      "a","l"," ","-"," ","i","t","'","s"," ","e","s","s","e","n","t","i",
      "a","l"," ","f","o","r"," ","r","e","a","c","h","i","n","g"," ","u",
      "s","e","r","s"," ","a","c","r","o","s","s"," ","a","l","l"," ","d",
      "e","v","i","c","e","s",".","\n","\n","K","e","y"," ","p","r","i","n",
      "c","i","p","l","e","s"," ","i","n","c","l","u","d","e"," ","m","o",
      "b","i","l","e","-","f","i","r","s","t"," ","d","e","s","i","g","n",
      ","," ","f","a","s","t"," ","l","o","a","d","i","n","g"," ","t","i",
      "m","e","s",","," ","i","n","t","u","i","t","i","v","e"," ","n","a",
      "v","i","g","a","t","i","o","n",","," ","a","n","d"," ","a","c","c",
      "e","s","s","i","b","l","e"," ","i","n","t","e","r","f","a","c","e",
      "s","."," ","T","o","o","l","s"," ","l","i","k","e"," ","C","S","S",
      " ","G","r","i","d"," ","a","n","d"," ","F","l","e","x","b","o","x",
      " ","h","a","v","e"," ","r","e","v","o","l","u","t","i","o","n","i",
      "z","e","d"," ","h","o","w"," ","w","e"," ","a","p","p","r","o","a",
      "c","h"," ","l","a","y","o","u","t"," ","d","e","s","i","g","n",",",
      " ","m","a","k","i","n","g"," ","i","t"," ","e","a","s","i","e","r",
      " ","t","o"," ","c","r","e","a","t","e"," ","c","o","m","p","l","e",
      "x",","," ","r","e","s","p","o","n","s","i","v","e"," ","l","a","y",
      "o","u","t","s",".">>

\* blogs_data[3] of seed_database: its content (828 characters)

SeedContent3 ==
    <<"C","r","e","a","t","i","v","e"," ","w","r","i","t","i","n","g"," ",
      "i","s"," ","a"," ","j","o","u","r","n","e","y"," ","o","f"," ","s",
      "e","l","f","-","e","x","p","r","e","s","s","i","o","n"," ","a","n",
      "d"," ","i","m","a","g","i","n","a","t","i","o","n","."," ","I","t",
      "'","s"," ","a","b","o","u","t"," ","f","i","n","d","i","n","g"," ",
      "y","o","u","r"," ","u","n","i","q","u","e"," ","v","o","i","c","e",
      " ","a","n","d"," ","s","h","a","r","i","n","g"," ","s","t","o","r",
      "i","e","s"," ","t","h","a","t"," ","r","e","s","o","n","a","t","e",
      " ","w","i","t","h"," ","r","e","a","d","e","r","s","."," ","W","h",
      "e","t","h","e","r"," ","y","o","u","'","r","e"," ","w","r","i","t",
      "i","n","g"," ","f","i","c","t","i","o","n",","," ","p","o","e","t",
      "r","y",","," ","o","r"," ","p","e","r","s","o","n","a","l"," ","n",
      "a","r","r","a","t","i","v","e","s",","," ","t","h","e"," ","f","u",
      "n","d","a","m","e","n","t","a","l","s"," ","r","e","m","a","i","n",
      " ","t","h","e"," ","s","a","m","e",".","\n","\n","D","e","v","e","l",
      "o","p","i","n","g"," ","y","o","u","r"," ","w","r","i","t","i","n",
      "g"," ","s","k","i","l","l","s"," ","r","e","q","u","i","r","e","s",
      " ","p","r","a","c","t","i","c","e",","," ","p","a","t","i","e","n",
      "c","e",","," ","a","n","d"," ","p","e","r","s","i","s","t","e","n",
      "c","e","."," ","S","t","a","r","t"," ","b","y"," ","r","e","a","d",
      "i","n","g"," ","w","i","d","e","l","y"," ","i","n"," ","y","o","u",
      "r"," ","c","h","o","s","e","n"," ","g","e","n","r","e","."," ","P",
      "a","y"," ","a","t","t","e","n","t","i","o","n"," ","t","o"," ","h",
      "o","w"," ","s","u","c","c","e","s","s","f","u","l"," ","a","u","t",
      "h","o","r","s"," ","c","r","a","f","t"," ","t","h","e","i","r"," ",
      "s","e","n","t","e","n","c","e","s",","," ","d","e","v","e","l","o",
      "p"," ","c","h","a","r","a","c","t","e","r","s",","," ","a","n","d",
      " ","b","u","i","l","d"," ","t","e","n","s","i","o","n","."," ","K",
      "e","e","p"," ","a"," ","j","o","u","r","n","a","l"," ","t","o"," ",
      "c","a","p","t","u","r","e"," ","i","d","e","a","s"," ","a","n","d",
      " ","o","b","s","e","r","v","a","t","i","o","n","s"," ","f","r","o",
      "m"," ","d","a","i","l","y"," ","l","i","f","e",".","\n","\n","T","h",
      "e"," ","w","r","i","t","i","n","g"," ","p","r","o","c","e","s","s",
      " ","i","n","v","o","l","v","e","s"," ","m","u","l","t","i","p","l",
      "e"," ","s","t","a","g","e","s",":"," ","b","r","a","i","n","s","t",
      "o","r","m","i","n","g",","," ","d","r","a","f","t","i","n","g",",",
      " ","r","e","v","i","s","i","n","g",","," ","a","n","d"," ","e","d",
      "i","t","i","n","g","."," ","D","o","n","'","t"," ","e","x","p","e",
      "c","t"," ","p","e","r","f","e","c","t","i","o","n"," ","i","n"," ",
      "y","o","u","r"," ","f","i","r","s","t"," ","d","r","a","f","t",".",
      " ","G","o","o","d"," ","w","r","i","t","i","n","g"," ","i","s"," ",
      "r","e","w","r","i","t","i","n","g","."," ","S","e","t"," ","a","s",
      "i","d","e"," ","d","e","d","i","c","a","t","e","d"," ","t","i","m",
      "e"," ","f","o","r"," ","w","r","i","t","i","n","g",","," ","c","r",
      "e","a","t","e"," ","a"," ","c","o","m","f","o","r","t","a","b","l",
      "e"," ","w","o","r","k","s","p","a","c","e",","," ","a","n","d"," ",
      "d","e","v","e","l","o","p"," ","r","o","u","t","i","n","e","s"," ",
      "t","h","a","t"," ","s","u","p","p","o","r","t"," ","y","o","u","r",
      " ","c","r","e","a","t","i","v","i","t","y",".">>

\* blogs_data[4] of seed_database: its content (715 characters)

SeedContent4 ==
    <<"E","f","f","e","c","t","i","v","e"," ","d","a","t","a","b","a","s",
      "e"," ","d","e","s","i","g","n"," ","i","s"," ","c","r","u","c","i",
      "a","l"," ","f","o","r"," ","b","u","i","l","d","i","n","g"," ","s",
      "c","a","l","a","b","l","e"," ","a","n","d"," ","m","a","i","n","t",
      "a","i","n","a","b","l","e"," ","a","p","p","l","i","c","a","t","i",
      "o","n","s","."," ","A"," ","w","e","l","l","-","d","e","s","i","g",
      "n","e","d"," ","d","a","t","a","b","a","s","e"," ","e","n","s","u",
      "r","e","s"," ","d","a","t","a"," ","i","n","t","e","g","r","i","t",
      "y",","," ","o","p","t","i","m","a","l"," ","p","e","r","f","o","r",
      "m","a","n","c","e",","," ","a","n","d"," ","e","a","s","y"," ","m",
      "a","i","n","t","e","n","a","n","c","e",".","\n","\n","S","t","a","r",
      "t"," ","w","i","t","h"," ","u","n","d","e","r","s","t","a","n","d",
      "i","n","g"," ","y","o","u","r"," ","d","a","t","a"," ","r","e","q",
      "u","i","r","e","m","e","n","t","s","."," ","I","d","e","n","t","i",
      "f","y"," ","e","n","t","i","t","i","e","s",","," ","r","e","l","a",
      "t","i","o","n","s","h","i","p","s",","," ","a","n","d"," ","c","o",
      "n","s","t","r","a","i","n","t","s","."," ","N","o","r","m","a","l",
      "i","z","e"," ","y","o","u","r"," ","d","a","t","a"," ","t","o"," ",
      "e","l","i","m","i","n","a","t","e"," ","r","e","d","u","n","d","a",
      "n","c","y",","," ","b","u","t"," ","b","e"," ","m","i","n","d","f",
      "u","l"," ","o","f"," ","o","v","e","r","-","n","o","r","m","a","l",
      "i","z","a","t","i","o","n"," ","w","h","i","c","h"," ","c","a","n",
      " ","i","m","p","a","c","t"," ","p","e","r","f","o","r","m","a","n",
      "c","e","."," ","C","h","o","o","s","e"," ","a","p","p","r","o","p",
      "r","i","a","t","e"," ","d","a","t","a"," ","t","y","p","e","s"," ",
      "a","n","d"," ","s","e","t"," ","u","p"," ","p","r","o","p","e","r",
      " ","i","n","d","e","x","i","n","g"," ","s","t","r","a","t","e","g",
      "i","e","s",".","\n","\n","C","o","n","s","i","d","e","r"," ","s","c",
      "a","l","a","b","i","l","i","t","y"," ","f","r","o","m"," ","t","h",
      "e"," ","b","e","g","i","n","n","i","n","g","."," ","P","l","a","n",
      " ","f","o","r"," ","d","a","t","a"," ","g","r","o","w","t","h"," ",
      "a","n","d"," ","q","u","e","r","y"," ","p","a","t","t","e","r","n",
      "s","."," ","U","s","e"," ","f","o","r","e","i","g","n"," ","k","e",
      "y"," ","c","o","n","s","t","r","a","i","n","t","s"," ","t","o"," ",
      "m","a","i","n","t","a","i","n"," ","r","e","f","e","r","e","n","t",
      "i","a","l"," ","i","n","t","e","g","r","i","t","y","."," ","D","o",
      "c","u","m","e","n","t"," ","y","o","u","r"," ","s","c","h","e","m",
      "a"," ","a","n","d"," ","e","s","t","a","b","l","i","s","h"," ","c",
      "l","e","a","r"," ","n","a","m","i","n","g"," ","c","o","n","v","e",
      "n","t","i","o","n","s"," ","f","o","r"," ","c","o","n","s","i","s",
      "t","e","n","c","y"," ","a","c","r","o","s","s"," ","y","o","u","r",
      " ","d","e","v","e","l","o","p","m","e","n","t"," ","t","e","a","m",
      ".">>

\* blogs_data[5] of seed_database: its content (754 characters)

SeedContent5 ==
    <<"C","r","e","a","t","i","n","g"," ","r","e","s","p","o","n","s","i",
      "v","e"," ","u","s","e","r"," ","i","n","t","e","r","f","a","c","e",
      "s"," ","t","h","a","t"," ","w","o","r","k"," ","s","e","a","m","l",
      "e","s","s","l","y"," ","a","c","r","o","s","s"," ","a","l","l"," ",
      "d","e","v","i","c","e","s"," ","i","s"," ","a"," ","f","u","n","d",
      "a","m","e","n","t","a","l"," ","s","k","i","l","l"," ","f","o","r",
      " ","m","o","d","e","r","n"," ","w","e","b"," ","d","e","v","e","l",
      "o","p","e","r","s","."," ","T","h","e"," ","m","o","b","i","l","e",
      "-","f","i","r","s","t"," ","a","p","p","r","o","a","c","h"," ","h",
      "a","s"," ","b","e","c","o","m","e"," ","t","h","e"," ","s","t","a",
      "n","d","a","r","d"," ","i","n"," ","c","o","n","t","e","m","p","o",
      "r","a","r","y"," ","w","e","b"," ","d","e","v","e","l","o","p","m",
      "e","n","t",".","\n","\n","C","S","S"," ","f","r","a","m","e","w","o",
      "r","k","s"," ","l","i","k","e"," ","B","o","o","t","s","t","r","a",
      "p"," ","a","n","d"," ","T","a","i","l","w","i","n","d"," ","C","S",
      "S"," ","p","r","o","v","i","d","e"," ","e","x","c","e","l","l","e",
      "n","t"," ","s","t","a","r","t","i","n","g"," ","p","o","i","n","t",
      "s",","," ","b","u","t"," ","u","n","d","e","r","s","t","a","n","d",
      "i","n","g"," ","t","h","e"," ","u","n","d","e","r","l","y","i","n",
      "g"," ","p","r","i","n","c","i","p","l","e","s"," ","i","s"," ","e",
      "s","s","e","n","t","i","a","l","."," ","L","e","a","r","n"," ","C",
      "S","S"," ","G","r","i","d"," ","a","n","d"," ","F","l","e","x","b",
      "o","x"," ","t","h","o","r","o","u","g","h","l","y"," ","-"," ","t",
      "h","e","s","e"," ","l","a","y","o","u","t"," ","s","y","s","t","e",
      "m","s"," ","g","i","v","e"," ","y","o","u"," ","p","o","w","e","r",
      "f","u","l"," ","t","o","o","l","s"," ","f","o","r"," ","c","r","e",
      "a","t","i","n","g"," ","f","l","e","x","i","b","l","e",","," ","r",
      "e","s","p","o","n","s","i","v","e"," ","d","e","s","i","g","n","s",
      ".","\n","\n","C","o","n","s","i","d","e","r"," ","p","e","r","f","o",
      "r","m","a","n","c","e"," ","i","m","p","l","i","c","a","t","i","o",
      "n","s"," ","o","f"," ","y","o","u","r"," ","d","e","s","i","g","n",
      " ","c","h","o","i","c","e","s","."," ","O","p","t","i","m","i","z",
      "e"," ","i","m","a","g","e","s",","," ","m","i","n","i","m","i","z",
      "e"," ","H","T","T","P"," ","r","e","q","u","e","s","t","s",","," ",
      "a","n","d"," ","u","s","e"," ","e","f","f","i","c","i","e","n","t",
      " ","C","S","S"," ","s","e","l","e","c","t","o","r","s","."," ","T",
      "e","s","t"," ","y","o","u","r"," ","i","n","t","e","r","f","a","c",
      "e","s"," ","o","n"," ","r","e","a","l"," ","d","e","v","i","c","e",
      "s",","," ","n","o","t"," ","j","u","s","t"," ","b","r","o","w","s",
      "e","r"," ","d","e","v"," ","t","o","o","l","s","."," ","U","s","e",
      "r"," ","e","x","p","e","r","i","e","n","c","e"," ","s","h","o","u",
      "l","d"," ","b","e"," ","c","o","n","s","i","s","t","e","n","t"," ",
      "a","n","d"," ","i","n","t","u","i","t","i","v","e"," ","r","e","g",
      "a","r","d","l","e","s","s"," ","o","f"," ","s","c","r","e","e","n",
      " ","s","i","z","e",".">>

\* blogs_data[6] of seed_database: its content (700 characters)

SeedContent6 ==
    <<"W","r","i","t","i","n","g"," ","p","r","o","d","u","c","t","i","v",
      "i","t","y"," ","i","s","n","'","t"," ","j","u","s","t"," ","a","b",
      "o","u","t"," ","w","r","i","t","i","n","g"," ","f","a","s","t","e",
      "r"," ","-"," ","i","t","'","s"," ","a","b","o","u","t"," ","w","r",
      "i","t","i","n","g"," ","c","o","n","s","i","s","t","e","n","t","l",
      "y"," ","a","n","d"," ","e","f","f","e","c","t","i","v","e","l","y",
      "."," ","D","e","v","e","l","o","p","i","n","g"," ","g","o","o","d",
      " ","h","a","b","i","t","s"," ","a","n","d"," ","s","y","s","t","e",
      "m","s"," ","c","a","n"," ","d","r","a","m","a","t","i","c","a","l",
      "l","y"," ","i","m","p","r","o","v","e"," ","y","o","u","r"," ","o",
      "u","t","p","u","t"," ","a","n","d"," ","q","u","a","l","i","t","y",
      ".","\n","\n","E","s","t","a","b","l","i","s","h"," ","a"," ","r","e",
      "g","u","l","a","r"," ","w","r","i","t","i","n","g"," ","s","c","h",
      "e","d","u","l","e"," ","t","h","a","t"," ","w","o","r","k","s"," ",
      "w","i","t","h"," ","y","o","u","r"," ","n","a","t","u","r","a","l",
      " ","r","h","y","t","h","m","s","."," ","S","o","m","e"," ","w","r",
      "i","t","e","r","s"," ","a","r","e"," ","m","o","s","t"," ","c","r",
      "e","a","t","i","v","e"," ","i","n"," ","t","h","e"," ","e","a","r",
      "l","y"," ","m","o","r","n","i","n","g",","," ","w","h","i","l","e",
      " ","o","t","h","e","r","s"," ","p","r","e","f","e","r"," ","l","a",
      "t","e","-","n","i","g","h","t"," ","s","e","s","s","i","o","n","s",
      "."," ","F","i","n","d"," ","y","o","u","r"," ","o","p","t","i","m",
      "a","l"," ","t","i","m","e"," ","a","n","d"," ","p","r","o","t","e",
      "c","t"," ","i","t"," ","f","i","e","r","c","e","l","y",".","\n","\n",
      "U","s","e"," ","t","o","o","l","s"," ","t","h","a","t"," ","s","u",
      "p","p","o","r","t"," ","y","o","u","r"," ","w","o","r","k","f","l",
      "o","w","."," ","W","h","e","t","h","e","r"," ","i","t","'","s"," ",
      "a"," ","s","i","m","p","l","e"," ","t","e","x","t"," ","e","d","i",
      "t","o","r"," ","o","r"," ","a"," ","f","u","l","l","-","f","e","a",
      "t","u","r","e","d"," ","w","r","i","t","i","n","g"," ","a","p","p",
      "l","i","c","a","t","i","o","n",","," ","c","h","o","o","s","e"," ",
      "t","o","o","l","s"," ","t","h","a","t"," ","d","o","n","'","t"," ",
      "d","i","s","t","r","a","c","t"," ","f","r","o","m"," ","y","o","u",
      "r"," ","c","r","e","a","t","i","v","i","t","y","."," ","S","e","t",
      " ","r","e","a","l","i","s","t","i","c"," ","d","a","i","l","y"," ",
      "w","o","r","d"," ","c","o","u","n","t"," ","g","o","a","l","s"," ",
      "a","n","d"," ","t","r","a","c","k"," ","y","o","u","r"," ","p","r",
      "o","g","r","e","s","s","."," ","C","e","l","e","b","r","a","t","e",
      " ","s","m","a","l","l"," ","w","i","n","s"," ","t","o"," ","m","a",
      "i","n","t","a","i","n"," ","m","o","t","i","v","a","t","i","o","n",
      " ","o","v","e","r"," ","l","o","n","g"," ","p","r","o","j","e","c",
      "t","s",".">>

\* blogs_data of seed_database

SeedBlogsData ==
    << [title     |-> <<"G","e","t","t","i","n","g"," ","S","t","a","r","t",
                        "e","d"," ","w","i","t","h"," ","F","l","a","s","k",
                        " ","W","e","b"," ","D","e","v","e","l","o","p","m",
                        "e","n","t">>,
        content   |-> SeedContent1,
        date      |-> <<"1","5","-","0","1","-","2","0","2","4">>,
        author_id |-> 1,
        featured  |-> TRUE],
       [title     |-> <<"M","o","d","e","r","n"," ","W","e","b"," ","D","e",
                        "s","i","g","n"," ","P","r","i","n","c","i","p","l",
                        "e","s">>,
        content   |-> SeedContent2,
        date      |-> <<"1","0","-","0","1","-","2","0","2","4">>,
        author_id |-> 2,
        featured  |-> TRUE],
       [title     |-> <<"T","h","e"," ","A","r","t"," ","o","f"," ","C","r",
                        "e","a","t","i","v","e"," ","W","r","i","t","i","n",
                        "g">>,
        content   |-> SeedContent3,
        date      |-> <<"0","8","-","0","1","-","2","0","2","4">>,
        author_id |-> 3,
        featured  |-> FALSE],
       [title     |-> <<"D","a","t","a","b","a","s","e"," ","D","e","s","i",
                        "g","n"," ","B","e","s","t"," ","P","r","a","c","t",
                        "i","c","e","s">>,
        content   |-> SeedContent4,
        date      |-> <<"0","5","-","0","1","-","2","0","2","4">>,
        author_id |-> 1,
        featured  |-> FALSE],
       [title     |-> <<"B","u","i","l","d","i","n","g"," ","R","e","s","p",
                        "o","n","s","i","v","e"," ","U","s","e","r"," ","I",
                        "n","t","e","r","f","a","c","e","s">>,
        content   |-> SeedContent5,
        date      |-> <<"0","2","-","0","1","-","2","0","2","4">>,
        author_id |-> 2,
        featured  |-> FALSE],
       [title     |-> <<"P","r","o","d","u","c","t","i","v","i","t","y"," ",
                        "T","i","p","s"," ","f","o","r"," ","W","r","i","t",
                        "e","r","s">>,
        content   |-> SeedContent6,
        date      |-> <<"2","8","-","1","2","-","2","0","2","3">>,
        author_id |-> 3,
        featured  |-> FALSE] >>
---------------------------------------------------------------------------
(* The state                                                               *)

VARIABLES
    authors,    \* the authors table: rows [id, name, email]
    blogs,      \* the blogs table: rows [id, title, content, date, slug,
                \*   featured, published, view_count, like_count, author_id]
    req,        \* per request thread: the add_blog POST it is serving
    initdb,     \* the init_db command: where it is
    seed,       \* seed_database: where it is
    counter,    \* per request thread: the Blog object it loaded and the
                \*   counter method it is about to run
    hist,       \* the last two operations that finished, oldest first
    nDone,      \* how many operations have finished
    ops,        \* how many operations have started
    nCalls,     \* how many counter calls have started
    calls,      \* per blog id: the counter calls that returned since the row
                \*   was inserted
    padYear,    \* whether the platform's strftime pads %Y to four digits
    call        \* the read request or the function call answered last, with
                \*   its answer

vars == <<authors, blogs, req, initdb, seed, counter, hist, nDone, ops, nCalls, calls,
          padYear, call>>

\* no read request and no function call answered yet
NoCall == [fn |-> ""]

\* the request threads of the server (threaded=True), by number
Procs == {1, 2}

\* threads are interchangeable: a new request is given to the first thread
\* of those that serve nothing
FirstFree(busy) == CHOOSE p \in Procs \ busy : \A q \in Procs \ busy : p <= q

\* the operations one behaviour starts
MaxOps == 2

\* the counter calls one behaviour starts
MaxCalls == 3

---------------------------------------------------------------------------
(* The storage engine: SQLite tables as SQLAlchemy declares them           *)

MaxId(rows) == CHOOSE n \in {r.id : r \in rows} : \A r \in rows : r.id <= n

\* INTEGER PRIMARY KEY without AUTOINCREMENT: one more than the largest id
NextId(rows) == IF rows = {} THEN 1 ELSE MaxId(rows) + 1

\* Author.query.filter_by(email=...): the rows whose email equals the
\* argument, compared character by character (BINARY collation)
AuthorsByEmail(email) == {a \in authors : a.email = email}

\* unique=True on Author.email
EmailIsFree(rows, email) == \A a \in rows : a.email # email

\* the slug column without its unique constraint
SlugIsFreeUnchecked(rows, slug) == TRUE

\* unique=True on Blog.slug
SlugIsFree(rows, slug) == \A b \in rows : b.slug # slug

\* a row of the table has the id
AuthorIdExists(rows, author_id) == \E a \in rows : a.id = author_id

\* the foreign key as SQLite treats it without the pragma: not enforced
ForeignKeyUnenforced(rows, author_id) == TRUE

\* ForeignKey('authors.id'), enforced because every connection runs
\* PRAGMA foreign_keys=ON
ForeignKeyHolds(rows, author_id) == \E a \in rows : a.id = author_id

\* a relationship that cascades nothing
CascadeNothing(rows, author_id) == {}

\* the blogs a deleted Author takes with it: cascade='all, delete-orphan'
CascadeBlogs(rows, author_id) == {b \in rows : b.author_id = author_id}

---------------------------------------------------------------------------
(* The models                                                              *)

\* Author.__init__: the row to insert, or ok = FALSE for the ValueError
AuthorInit(name, email) ==
    LET e == Strip(Lower(email))
    IN  [ok |-> validate_email(e), name |-> Strip(name), email |-> e]

TitleMinLen == 5

ContentMinLen == 10

\* the checks of Blog.__init__ with the title bound one too low
BlogFieldsValidOneShort(title, content) ==
    /\ title # <<>>
    /\ content # <<>>
    /\ ~(Len(title) < TitleMinLen - 1)
    /\ ~(Len(content) < ContentMinLen)

\* the checks at the end of Blog.__init__
BlogFieldsValid(title, content) ==
    /\ title # <<>>
    /\ content # <<>>
    /\ ~(Len(title) < TitleMinLen)
    /\ ~(Len(content) < ContentMinLen)

\* Blog.__init__ with slug=None: the row to insert (without its id), or
\* ok = FALSE for the ValueError
BlogInit(title, content, date, author_id, featured) ==
    [ok         |-> BlogFieldsValid(Strip(title), Strip(content)),
     title      |-> Strip(title),
     content    |-> Strip(content),
     date       |-> date,
     slug       |-> generate_slug(title),
     featured   |-> featured,
     published  |-> TRUE,
     view_count |-> 0,
     like_count |-> 0,
     author_id  |-> author_id]

\* the row of a Blog object, with the id the table gives it
BlogRow(b, id) ==
    [id |-> id, title |-> b.title, content |-> b.content, date |-> b.date,
     slug |-> b.slug, featured |-> b.featured, published |-> b.published,
     view_count |-> b.view_count, like_count |-> b.like_count,
     author_id |-> b.author_id]

\* the counter calls that returned on a blog id, by what they did: view,
\* like and unlike committed a change, floor found like_count at 0 and
\* did nothing; none yet for a row just inserted
ZeroCalls == [view |-> 0, like |-> 0, unlike |-> 0, floor |-> 0]

CallsOn(id) == IF id \in DOMAIN calls THEN calls[id] ELSE ZeroCalls

NoCalls(id) == [i \in DOMAIN calls \cup {id} |-> IF i = id THEN ZeroCalls ELSE calls[i]]

\* the INSERT of one blog is accepted by the constraints of the table
BlogInsertAccepted(b) ==
    /\ SlugIsFree(blogs, b.slug)
    /\ ForeignKeyHolds(authors, b.author_id)

---------------------------------------------------------------------------
(* The history of finished operations                                      *)

\* One finished operation. op names it; start is nDone when it began; resp
\* is its outcome; name, email and title are the submitted fields of a
\* valid add_blog form; tlen is the length of the trimmed title; nerr counts the flashed validation errors; bad says
\* that the form breaks a field rule; wroteAuthor and wroteBlog say what the
\* operation committed; slugTaken says the derived slug was stored already
\* when the blog was inserted; author and removed are the Author a deletion
\* removed and the ids of the blogs it removed.
Entry(op, start, resp) ==
    [op |-> op, start |-> start, resp |-> resp,
     name |-> <<>>, email |-> <<>>, title |-> <<>>,
     tlen |-> 0, nerr |-> 0, bad |-> FALSE, wroteAuthor |-> FALSE, wroteBlog |-> FALSE,
     slugTaken |-> FALSE, author |-> 0, removed |-> {}]

\* the history with one more finished operation
Logged(e) == IF Len(hist) < 2 THEN Append(hist, e) ELSE <<hist[2], e>>

Finish(e) ==
    /\ hist' = Logged(e)
    /\ nDone' = nDone + 1

---------------------------------------------------------------------------
(* add_blog, POST                                                          *)

\* the form fields as the browser sends them: two names, one address in
\* two spellings, three titles of which two give the same slug
FormNames == { <<"A","l">>, <<"B","o">> }

FormEmails == { <<"a","@","b",".","i","o">>, <<"A","@","b",".","i","o">> }

FormTitles ==
    { <<"H","e","l","l","o">>, <<"h","e","l","l","o","!">>, <<"W","o","r","l","d">> }

FormContent == <<"S","o","m","e"," ","t","e","x","t",".">>

FormDate == <<"2","0","2","4","-","0","1","-","1","5">>

\* and the values that break a field rule, or come close to it
OtherNames == { <<"B">>, <<" ">> }

OtherEmails == { <<"a","@","b">>, <<"a"," ","b","@","c",".","i","o">>, <<>> }

OtherTitles == { <<" ","H","e","l","l"," ">>, <<>> }

OtherContents == { <<" ","T","o","o"," ","s","h","o","r","t"," ">>, <<>> }

OtherDates ==
    { <<"1","5","-","0","1","-","2","0","2","4">>,
      <<"0","1","/","1","5","/","2","0","2","4">>,
      <<"2","0","2","4","-","0","2","-","3","0">>,
      <<"s","o","o","n">>, <<>> }

Form(name, email, title, content, date) ==
    [author_name |-> name, author_email |-> email, blog_title |-> title,
     blog_content |-> content, blog_date |-> date]

GoodForm ==
    Form(<<"A","l">>, <<"a","@","b",".","i","o">>, <<"H","e","l","l","o">>,
         FormContent, FormDate)

\* the submitted forms: every name, address and title above; the good form
\* with one field replaced; and a form with every field broken
Forms ==
    {Form(n, e, t, FormContent, FormDate) :
        n \in FormNames, e \in FormEmails, t \in FormTitles}
    \cup {[GoodForm EXCEPT !.author_name = x] : x \in OtherNames}
    \cup {[GoodForm EXCEPT !.author_email = x] : x \in OtherEmails}
    \cup {[GoodForm EXCEPT !.blog_title = x] : x \in OtherTitles}
    \cup {[GoodForm EXCEPT !.blog_content = x] : x \in OtherContents}
    \cup {[GoodForm EXCEPT !.blog_date = x] : x \in OtherDates}
    \cup {Form(<<"B">>, <<"a","@","b">>, <<>>, <<>>, <<"s","o","o","n">>)}

\* the validation of add_blog, field by field: the messages it collects
NameErrors(author_name) ==
    IF author_name = <<>> THEN <<"Author name is required.">>
    ELSE IF Len(author_name) < 2
    THEN <<"Author name must be at least 2 characters long.">>
    ELSE <<>>

EmailErrors(author_email) ==
    IF author_email = <<>> THEN <<"Author email is required.">>
    ELSE IF ~validate_email(author_email)
    THEN <<"Please provide a valid email address.">>
    ELSE <<>>

\* the title check with the bound one too low
TitleErrorsOneShort(blog_title) ==
    IF blog_title = <<>> THEN <<"Blog title is required.">>
    ELSE IF Len(blog_title) < 4
    THEN <<"Blog title must be at least 5 characters long.">>
    ELSE <<>>

TitleErrors(blog_title) ==
    IF blog_title = <<>> THEN <<"Blog title is required.">>
    ELSE IF Len(blog_title) < 5
    THEN <<"Blog title must be at least 5 characters long.">>
    ELSE <<>>

ContentErrors(blog_content) ==
    IF blog_content = <<>> THEN <<"Blog content is required.">>
    ELSE IF Len(blog_content) < 10
    THEN <<"Blog content must be at least 10 characters long.">>
    ELSE <<>>

DateErrors(blog_date, pad) ==
    IF blog_date = <<>> THEN <<"Publication date is required.">>
    ELSE IF validate_date(blog_date, pad) = None
    THEN <<"Please provide a valid date.">>
    ELSE <<>>

FormErrors(author_name, author_email, blog_title, blog_content, blog_date, pad) ==
    NameErrors(author_name) \o EmailErrors(author_email) \o TitleErrors(blog_title)
    \o ContentErrors(blog_content) \o DateErrors(blog_date, pad)

\* the form breaks a field rule of the submission form
FieldRuleBroken(f) ==
    \/ Len(Strip(f.author_name)) < 2
    \/ ~validate_email(Strip(f.author_email))
    \/ Len(Strip(f.blog_title)) < 5
    \/ Len(Strip(f.blog_content)) < 10
    \/ \A i \in 1..3 :
          ~Strptime(Strip(f.blog_date), DateFormats[i].sep, DateFormats[i].order).ok

IdleReq ==
    [pc |-> "idle", name |-> <<>>, email |-> <<>>, title |-> <<>>,
     content |-> <<>>, date |-> <<>>, author_id |-> 0, start |-> 0,
     wroteAuthor |-> FALSE, bad |-> FALSE]

\* the history entry of a request that ends with resp
ReqEntry(r, resp, wroteBlog, slugTaken) ==
    [Entry("add_blog", r.start, resp) EXCEPT
        !.name = r.name, !.email = r.email, !.title = r.title,
        !.tlen = Len(r.title), !.bad = r.bad, !.wroteAuthor = r.wroteAuthor,
        !.wroteBlog = wroteBlog, !.slugTaken = slugTaken]

\* the except branch: rollback, flash, the form again
ReqFails(p, slugTaken) ==
    /\ Finish(ReqEntry(req[p], "error", FALSE, slugTaken))
    /\ req' = [req EXCEPT ![p] = IdleReq]

\* Lines 155-192 on one form: the trimmed fields, the date as validate_date
\* gives it back, and the errors collected
Validated(f, pad) ==
    LET author_name  == Strip(f.author_name)
        author_email == Strip(f.author_email)
        blog_title   == Strip(f.blog_title)
        blog_content == Strip(f.blog_content)
        blog_date    == Strip(f.blog_date)
    IN  [pad |-> pad,
         name |-> author_name, email |-> author_email, title |-> blog_title,
         content |-> blog_content, date |-> validate_date(blog_date, pad),
         errors |-> FormErrors(author_name, author_email, blog_title,
                               blog_content, blog_date, pad),
         bad |-> FieldRuleBroken(f)]

\* the submitted forms as add_blog sees them after validation, on either
\* kind of platform
Submissions == {Validated(f, pad) : f \in Forms, pad \in BOOLEAN}

\* Lines 155-200: the fields are trimmed and validated; a form with errors
\* is shown again; otherwise the author is looked up by the submitted email.
\* The request goes on to the author write when there is one to do, and to
\* the blog insert when the author exists under the submitted name.
AddBlogPost(p, v) ==
    /\ req[p].pc = "idle"
    /\ p = FirstFree({q \in Procs : req[q].pc # "idle"})
    /\ ops < MaxOps
    /\ ops' = ops + 1
    /\ v.pad = padYear
    /\ LET found  == AuthorsByEmail(v.email)
           author == CHOOSE a \in found : TRUE
       IN  IF v.errors # <<>>
           THEN /\ Finish([Entry("add_blog", nDone, "form_errors") EXCEPT
                              !.tlen = Len(v.title), !.nerr = Len(v.errors),
                              !.bad = v.bad])
                /\ UNCHANGED req
           ELSE /\ req' = [req EXCEPT ![p] =
                    [pc |-> IF found # {} /\ author.name = v.name
                            THEN "blog" ELSE "author",
                     name |-> v.name, email |-> v.email,
                     title |-> v.title, content |-> v.content,
                     date |-> v.date,
                     author_id |-> IF found = {} THEN 0 ELSE author.id,
                     start |-> nDone, wroteAuthor |-> FALSE,
                     bad |-> v.bad]]
                /\ UNCHANGED <<hist, nDone>>
    /\ UNCHANGED <<authors, blogs, initdb, seed, counter, nCalls, calls, padYear, call>>

\* Lines 202-211: a new Author is inserted and committed, or the Author that
\* was found is renamed and committed. A commit the table refuses (the email
\* is taken, the row is gone) raises, and the except branch ends the request.
AddBlogAuthor(p) ==
    LET r == req[p]
        a == AuthorInit(r.name, r.email)
        id == NextId(authors)
    IN  /\ r.pc = "author"
        /\ IF r.author_id = 0
           THEN IF a.ok /\ EmailIsFree(authors, a.email)
                THEN /\ authors' = authors \cup
                            {[id |-> id, name |-> a.name, email |-> a.email]}
                     /\ req' = [req EXCEPT ![p].pc = "blog", ![p].author_id = id,
                                           ![p].wroteAuthor = TRUE]
                     /\ UNCHANGED <<hist, nDone>>
                ELSE /\ ReqFails(p, FALSE)
                     /\ UNCHANGED authors
           ELSE IF AuthorIdExists(authors, r.author_id)
                THEN /\ authors' = {IF x.id = r.author_id
                                    THEN [x EXCEPT !.name = r.name] ELSE x :
                                    x \in authors}
                     /\ req' = [req EXCEPT ![p].pc = "blog",
                                           ![p].wroteAuthor = TRUE]
                     /\ UNCHANGED <<hist, nDone>>
                ELSE /\ ReqFails(p, FALSE)
                     /\ UNCHANGED authors
        /\ UNCHANGED <<blogs, initdb, seed, counter, ops, nCalls, calls, padYear, call>>

\* Lines 213-231: the Blog is built, inserted and committed. author.id is
\* read from an object the earlier commit expired; a row that is gone by
\* then raises like the foreign key does at the insert.
AddBlogBlog(p) ==
    LET r == req[p]
        b == BlogInit(r.title, r.content, r.date, r.author_id, FALSE)
        id == NextId(blogs)
        taken == \E x \in blogs : x.slug = b.slug
    IN  /\ r.pc = "blog"
        /\ IF b.ok /\ BlogInsertAccepted(b)
           THEN /\ blogs' = blogs \cup {BlogRow(b, id)}
                /\ calls' = NoCalls(id)
                /\ Finish(ReqEntry(r, "published", TRUE, taken))
                /\ req' = [req EXCEPT ![p] = IdleReq]
           ELSE /\ ReqFails(p, taken)
                /\ UNCHANGED <<blogs, calls>>
        /\ UNCHANGED <<authors, initdb, seed, counter, ops, nCalls, padYear, call>>

---------------------------------------------------------------------------
(* Deleting an Author through the session                                  *)

\* db.session.delete(author) and commit: the relationship Author.blogs
\* cascades the deletion to the blogs of the author
DeleteAuthor(a) ==
    LET gone == CascadeBlogs(blogs, a.id)
    IN  /\ a \in authors
        /\ ops < MaxOps
        /\ ops' = ops + 1
        /\ authors' = authors \ {a}
        /\ blogs' = blogs \ gone
        /\ Finish([Entry("delete", nDone, "deleted") EXCEPT
                      !.author = a.id, !.removed = {b.id : b \in gone}])
        /\ UNCHANGED <<req, initdb, seed, counter, nCalls, calls, padYear, call>>

---------------------------------------------------------------------------
(* view_blog                                                               *)

\* view_blog without the except branch: NotFound leaves the route
view_blog_unhandled(blog_id) ==
    IF \E b \in blogs : b.id = blog_id THEN "page" ELSE "fault"

\* Blog.query.get_or_404(blog_id): the page of the blog, or NotFound, which
\* the except branch of the route turns into the flash 'Blog not found.'
\* and a redirect to the listing
view_blog(blog_id) ==
    IF \E b \in blogs : b.id = blog_id THEN "page" ELSE "not_found"

---------------------------------------------------------------------------
(* Building a Blog outside add_blog                                        *)

\* Blog(title, content, date, author_id), db.session.add and commit, as
\* init_db and seed_database do it, for any title and content: the
\* constructor raises on fields that are too short, the commit on a slug
\* that is taken or an author id that names no Author
ConstructBlog(title, content, author_id) ==
    LET b == BlogInit(title, content, SampleBlogDate, author_id, FALSE)
        id == NextId(blogs)
        e == [Entry("construct", nDone, "ValueError") EXCEPT
                 !.tlen = Len(Strip(title)),
                 !.bad = Len(Strip(title)) < 5 \/ Len(Strip(content)) < 10]
    IN  /\ ops < MaxOps
        /\ ops' = ops + 1
        /\ IF ~b.ok
           THEN /\ Finish(e)
                /\ UNCHANGED <<blogs, calls>>
           ELSE IF ~BlogInsertAccepted(b)
           THEN /\ Finish([e EXCEPT !.resp = "IntegrityError"])
                /\ UNCHANGED <<blogs, calls>>
           ELSE /\ blogs' = blogs \cup {BlogRow(b, id)}
                /\ calls' = NoCalls(id)
                /\ Finish([e EXCEPT !.resp = "created", !.wroteBlog = TRUE])
        /\ UNCHANGED <<authors, req, initdb, seed, counter, nCalls, padYear, call>>

---------------------------------------------------------------------------
(* The counter methods of Blog                                             *)

CounterMethods ==
    {"increment_view_count", "increment_like_count", "decrement_like_count"}

IdleCounter == [pc |-> "idle", method |-> "", id |-> 0, view_count |-> 0, like_count |-> 0]

\* a request loads the Blog object it will call the method on: the object
\* holds the counters as the row had them
CounterLoad(p, b, method) ==
    /\ counter[p].pc = "idle"
    /\ p = FirstFree({q \in Procs : counter[q].pc # "idle"})
    /\ b \in blogs
    /\ nCalls < MaxCalls
    /\ nCalls' = nCalls + 1
    /\ counter' = [counter EXCEPT ![p] =
            [pc |-> "loaded", method |-> method, id |-> b.id,
             view_count |-> b.view_count, like_count |-> b.like_count]]
    /\ UNCHANGED <<authors, blogs, req, initdb, seed, hist, nDone, ops, calls, padYear, call>>

\* the methods with decrement_like_count missing its test of like_count
CounterEffectUnguarded(c) ==
    IF c.method = "increment_view_count"
    THEN [commit |-> TRUE, view_count |-> c.view_count + 1, like_count |-> c.like_count]
    ELSE IF c.method = "increment_like_count"
    THEN [commit |-> TRUE, view_count |-> c.view_count, like_count |-> c.like_count + 1]
    ELSE [commit |-> TRUE, view_count |-> c.view_count, like_count |-> c.like_count - 1]

\* what the method does to the counters of the object, and whether it commits
CounterEffect(c) ==
    IF c.method = "increment_view_count"
    THEN [commit |-> TRUE, view_count |-> c.view_count + 1, like_count |-> c.like_count]
    ELSE IF c.method = "increment_like_count"
    THEN [commit |-> TRUE, view_count |-> c.view_count, like_count |-> c.like_count + 1]
    ELSE IF c.like_count > 0
    THEN [commit |-> TRUE, view_count |-> c.view_count, like_count |-> c.like_count - 1]
    ELSE [commit |-> FALSE, view_count |-> c.view_count, like_count |-> c.like_count]

\* the UPDATE of the commit: the one column the method assigned, in the
\* row with the id of the object
CounterUpdate(row, c) ==
    LET eff == CounterEffect(c)
    IN  IF c.method = "increment_view_count"
        THEN [row EXCEPT !.view_count = eff.view_count]
        ELSE [row EXCEPT !.like_count = eff.like_count]

\* the count of the calls on a blog id, with the call of c added
CallCounted(c) ==
    LET n == CallsOn(c.id)
        m == IF ~CounterEffect(c).commit THEN [n EXCEPT !.floor = @ + 1]
             ELSE IF c.method = "increment_view_count" THEN [n EXCEPT !.view = @ + 1]
             ELSE IF c.method = "increment_like_count" THEN [n EXCEPT !.like = @ + 1]
             ELSE [n EXCEPT !.unlike = @ + 1]
    IN  [i \in DOMAIN calls \cup {c.id} |-> IF i = c.id THEN m ELSE calls[i]]

\* the method runs on the loaded object and commits; the UPDATE of a row
\* that is gone raises and changes nothing
CounterRun(p) ==
    LET c == counter[p]
        there == \E b \in blogs : b.id = c.id
    IN  /\ c.pc = "loaded"
        /\ IF CounterEffect(c).commit /\ there
           THEN blogs' = {IF b.id = c.id THEN CounterUpdate(b, c) ELSE b : b \in blogs}
           ELSE UNCHANGED blogs
        /\ calls' = IF there THEN CallCounted(c) ELSE calls
        /\ counter' = [counter EXCEPT ![p] = IdleCounter]
        /\ UNCHANGED <<authors, req, initdb, seed, hist, nDone, ops, nCalls, padYear, call>>

---------------------------------------------------------------------------
(* The seeding commands                                                    *)

\* a batch of Blog objects gets consecutive ids
BatchRows(batch, first) == {BlogRow(batch[i], first + i - 1) : i \in 1..Len(batch)}

\* one commit of a batch of blogs is accepted: every slug is new and unlike
\* the others of the batch, every author_id names an Author
BatchAccepted(batch) ==
    /\ \A i \in 1..Len(batch) : BlogInsertAccepted(batch[i])
    /\ \A i, j \in 1..Len(batch) : i # j => batch[i].slug # batch[j].slug

IdleCmd == [pc |-> "idle", author_id |-> 0, start |-> 0]

\* the Author objects seed_database builds from authors_data
SeedAuthorObjects ==
    [i \in 1..Len(SeedAuthorsData) |->
        AuthorInit(SeedAuthorsData[i].name, SeedAuthorsData[i].email)]

\* the Blog objects seed_database builds from blogs_data
SeedBlogObjects ==
    [i \in 1..Len(SeedBlogsData) |->
        BlogInit(SeedBlogsData[i].title, SeedBlogsData[i].content,
                 SeedBlogsData[i].date, SeedBlogsData[i].author_id,
                 SeedBlogsData[i].featured)]

\* the Author and the Blog init_db builds; the id of the author is filled
\* in when it is known
SampleAuthorObject == AuthorInit(SampleAuthorName, SampleAuthorEmail)

SampleBlogObject ==
    BlogInit(SampleBlogTitle, SampleBlogContent, SampleBlogDate, 0, FALSE)

\* init_db, lines 360-366: the sample author is inserted and committed; the
\* except branch prints the error and rolls back
InitDbAuthor ==
    LET a == SampleAuthorObject
        id == NextId(authors)
    IN  /\ initdb.pc = "idle"
        /\ ops < MaxOps
        /\ ops' = ops + 1
        /\ IF a.ok /\ EmailIsFree(authors, a.email)
           THEN /\ authors' = authors \cup
                       {[id |-> id, name |-> a.name, email |-> a.email]}
                /\ initdb' = [pc |-> "blog", author_id |-> id, start |-> nDone]
                /\ UNCHANGED <<hist, nDone>>
           ELSE /\ Finish(Entry("init_db", nDone, "error"))
                /\ UNCHANGED <<authors, initdb>>
        /\ UNCHANGED <<blogs, req, seed, counter, nCalls, calls, padYear, call>>

\* init_db, lines 368-382: the sample blog is inserted and committed
InitDbBlog ==
    LET b == [SampleBlogObject EXCEPT !.author_id = initdb.author_id]
        id == NextId(blogs)
    IN  /\ initdb.pc = "blog"
        /\ IF b.ok /\ BlogInsertAccepted(b)
           THEN /\ blogs' = blogs \cup {BlogRow(b, id)}
                /\ calls' = NoCalls(id)
                /\ Finish([Entry("init_db", initdb.start, "seeded") EXCEPT
                              !.wroteAuthor = TRUE, !.wroteBlog = TRUE])
           ELSE /\ Finish([Entry("init_db", initdb.start, "error") EXCEPT
                              !.wroteAuthor = TRUE])
                /\ UNCHANGED <<blogs, calls>>
        /\ initdb' = IdleCmd
        /\ UNCHANGED <<authors, req, seed, counter, ops, nCalls, padYear, call>>

\* seed_database, lines 38-70: nothing is done when an Author exists;
\* otherwise the three sample authors are inserted in one commit
SeedAuthors ==
    LET first == NextId(authors)
        objs == SeedAuthorObjects
    IN  /\ seed.pc = "idle"
        /\ ops < MaxOps
        /\ ops' = ops + 1
        /\ IF authors # {}
           THEN /\ Finish(Entry("seed_database", nDone, "skipped"))
                /\ UNCHANGED <<authors, seed>>
           ELSE /\ authors' = {[id |-> first + i - 1, name |-> objs[i].name,
                                email |-> objs[i].email] : i \in 1..Len(objs)}
                /\ seed' = [pc |-> "blogs", author_id |-> 0, start |-> nDone]
                /\ UNCHANGED <<hist, nDone>>
        /\ UNCHANGED <<blogs, req, initdb, counter, nCalls, calls, padYear, call>>

\* seed_database, lines 72-148: the six sample blogs, with the author ids
\* 1, 2 and 3 written in the data, are inserted in one commit; a refused
\* commit is rolled back and the error raised again
SeedBlogs ==
    LET batch == SeedBlogObjects
        first == NextId(blogs)
    IN  /\ seed.pc = "blogs"
        /\ IF (\A i \in 1..Len(batch) : batch[i].ok) /\ BatchAccepted(batch)
           THEN /\ blogs' = blogs \cup BatchRows(batch, first)
                /\ calls' = [i \in DOMAIN calls \cup (first..(first + Len(batch) - 1)) |->
                                IF i >= first THEN ZeroCalls ELSE calls[i]]
                /\ Finish([Entry("seed_database", seed.start, "seeded") EXCEPT
                              !.wroteAuthor = TRUE, !.wroteBlog = TRUE])
           ELSE /\ Finish([Entry("seed_database", seed.start, "error") EXCEPT
                              !.wroteAuthor = TRUE])
                /\ UNCHANGED <<blogs, calls>>
        /\ seed' = IdleCmd
        /\ UNCHANGED <<authors, req, initdb, counter, ops, nCalls, padYear, call>>

---------------------------------------------------------------------------
(* The specification of the store and its requests                         *)

\* the titles and contents a caller of Blog(...) passes: a title of four and
\* one of five characters inside whitespace, a content of ten characters
\* and one of nine inside whitespace
DirectTitles == { <<" ","H","e","l","l"," ">>, <<" ","H","e","l","l","o"," ">> }

DirectContents ==
    { <<"S","o","m","e"," ","t","e","x","t",".">>,
      <<" ","T","o","o"," ","s","h","o","r","t"," ">> }

\* the author ids a caller can pass: those of the table, and one of no row
AuthorIds == {a.id : a \in authors} \cup {NextId(authors)}

\* the tables as create_all leaves them, no request and no command running;
\* the C library of this build does not pad %Y
Init ==
    /\ authors = {}
    /\ blogs = {}
    /\ req = [p \in Procs |-> IdleReq]
    /\ initdb = IdleCmd
    /\ seed = IdleCmd
    /\ counter = [p \in Procs |-> IdleCounter]
    /\ hist = <<>>
    /\ nDone = 0
    /\ ops = 0
    /\ nCalls = 0
    /\ calls = <<>>
    /\ padYear = FALSE
    /\ call = NoCall

Next ==
    \/ \E p \in Procs : \E v \in Submissions : AddBlogPost(p, v)
    \/ \E p \in Procs : AddBlogAuthor(p)
    \/ \E p \in Procs : AddBlogBlog(p)
    \/ \E a \in authors : DeleteAuthor(a)
    \/ \E t \in DirectTitles : \E c \in DirectContents : \E id \in AuthorIds :
          ConstructBlog(t, c, id)
    \/ InitDbAuthor
    \/ InitDbBlog
    \/ SeedAuthors
    \/ SeedBlogs

Spec == Init /\ [][Next]_vars

---------------------------------------------------------------------------
(* The specification of the counter methods: the sample data of init_db,   *)
(* requests that call the counter methods, and the deletion of the author  *)

NextCounters ==
    \/ InitDbAuthor
    \/ InitDbBlog
    \/ \E a \in authors : DeleteAuthor(a)
    \/ \E p \in Procs : \E b \in blogs : \E m \in CounterMethods : CounterLoad(p, b, m)
    \/ \E p \in Procs : CounterRun(p)

SpecCounters == Init /\ [][NextCounters]_vars

---------------------------------------------------------------------------
(* The read routes                                                         *)

\* the ASCII characters of the texts, in the order of their codes
AsciiChars ==
    <<" ", "!", "\"", "#", "$", "%", "&", "'", "(", ")", "*", "+", ",", "-", ".", "/",
      "0", "1", "2", "3", "4", "5", "6", "7", "8", "9", ":", ";", "<", "=", ">", "?",
      "@", "A", "B", "C", "D", "E", "F", "G", "H", "I", "J", "K", "L", "M", "N", "O",
      "P", "Q", "R", "S", "T", "U", "V", "W", "X", "Y", "Z", "[", "\\", "]", "^", "_",
      "a", "b", "c", "d", "e", "f", "g", "h", "i", "j", "k", "l", "m", "n", "o",
      "p", "q", "r", "s", "t", "u", "v", "w", "x", "y", "z", "{", "|", "}", "~">>

Ord(c) == CHOOSE i \in 1..Len(AsciiChars) : AsciiChars[i] = c

\* s sorts before t under the BINARY collation of the text columns
TextLess(s, t) ==
    \E k \in 1..(Len(t)) :
        /\ \A i \in 1..(k - 1) : i <= Len(s) /\ s[i] = t[i]
        /\ \/ k = Len(s) + 1
           \/ k <= Len(s) /\ Ord(s[k]) < Ord(t[k])

\* pattern LIKE text from the positions i and j on, as SQLite evaluates it:
\* % stands for any run of characters, _ for any one character, and ASCII
\* letters match in either case
RECURSIVE LikeFrom(_, _, _, _)
LikeFrom(p, i, t, j) ==
    IF i > Len(p) THEN j > Len(t)
    ELSE IF p[i] = "%"
    THEN \/ i = Len(p)
         \/ \E k \in j..(Len(t) + 1) : LikeFrom(p, i + 1, t, k)
    ELSE /\ j <= Len(t)
         /\ p[i] = "_" \/ LowerChar(p[i]) = LowerChar(t[j])
         /\ LikeFrom(p, i + 1, t, j + 1)

\* column.contains(search): column LIKE '%' || search || '%'
ColumnContains(text, search) ==
    LikeFrom(<<"%">> \o search \o <<"%">>, 1, text, 1)

\* the filter of the listing and of the search: title, content, or the
\* name of the author
SearchMatches(b, search) ==
    \/ ColumnContains(b.title, search)
    \/ ColumnContains(b.content, search)
    \/ \E a \in authors : a.id = b.author_id /\ ColumnContains(a.name, search)

\* request.args.get(key, default)
ArgsGet(args, key, default) == IF key \in DOMAIN args THEN args[key] ELSE default

\* the sort of the listing with the author branch left out
SortOrderNoAuthor(sort_by) ==
    IF sort_by = "oldest" THEN "id asc"
    ELSE IF sort_by = "title" THEN "title asc"
    ELSE "id desc"

\* the ORDER BY the listing applies for a sort value
SortOrder(sort_by) ==
    IF sort_by = "oldest" THEN "id asc"
    ELSE IF sort_by = "title" THEN "title asc"
    ELSE IF sort_by = "author" THEN "author asc"
    ELSE "id desc"

AuthorOf(b) == CHOOSE a \in authors : a.id = b.author_id

\* the pairs of ids of rows that an ORDER BY puts in this order
Before(rows, order) ==
    {<<x.id, y.id>> : <<x, y>> \in
        {pair \in rows \X rows :
            IF order = "id asc" THEN pair[1].id < pair[2].id
            ELSE IF order = "id desc" THEN pair[1].id > pair[2].id
            ELSE IF order = "title asc" THEN TextLess(pair[1].title, pair[2].title)
            ELSE IF order = "author asc"
            THEN TextLess(AuthorOf(pair[1]).name, AuthorOf(pair[2]).name)
            ELSE FALSE}}

\* the lists of the ids that put each id once and none ahead of one that
\* comes before it
RECURSIVE ListingsOf(_, _)
ListingsOf(ids, before) ==
    IF ids = {} THEN {<<>>}
    ELSE UNION {{<<i>> \o rest : rest \in ListingsOf(ids \ {i}, before)} :
                   i \in {x \in ids : \A y \in ids : <<y, x>> \notin before}}

\* the lists a query can return for the rows, by id: each row once, in the
\* order of the ORDER BY; rows the order does not tell apart come as the
\* engine finds them
Listings(rows, before) == ListingsOf({r.id : r \in rows}, before)

\* .limit(n)
Limit(list, n) == SubSeq(list, 1, IF Len(list) < n THEN Len(list) ELSE n)

\* the caller takes the answer
Return ==
    /\ call.fn # ""
    /\ call' = NoCall
    /\ UNCHANGED <<authors, blogs, req, initdb, seed, counter, hist, nDone, ops, nCalls,
                   calls, padYear>>

\* a read request and its answer
Response(fn, arg, out) == [fn |-> fn, arg |-> arg, out |-> out]

\* the state a read request leaves alone
ReadOnly ==
    UNCHANGED <<authors, req, initdb, seed, counter, hist, nDone, ops, nCalls, calls,
                padYear>>

\* index: the three newest blogs
Index ==
    /\ call.fn = ""
    /\ \E recent \in Listings(blogs, Before(blogs, "id desc")) :
          call' = Response("index", <<>>, [status |-> "page", blogs |-> Limit(recent, 3)])
    /\ UNCHANGED blogs
    /\ ReadOnly

\* about: the numbers of blogs and of authors
About ==
    /\ call.fn = ""
    /\ call' = Response("about", <<>>,
                        [status |-> "page", total_blogs |-> Cardinality(blogs),
                         total_authors |-> Cardinality({a.id : a \in authors})])
    /\ UNCHANGED blogs
    /\ ReadOnly

\* blogs: the listing, filtered by the search when there is one, in the
\* order of the sort
Blogs(args) ==
    LET sort_by == ArgsGet(args, "sort", "newest")
        search == Strip(ArgsGet(args, "search", <<>>))
        found == IF search # <<>> THEN {b \in blogs : SearchMatches(b, search)}
                 ELSE blogs
        rows == IF SortOrder(sort_by) = "author asc"
                THEN {b \in found : \E a \in authors : a.id = b.author_id}
                ELSE found
    IN  /\ call.fn = ""
        /\ \E blogs_list \in Listings(rows, Before(rows, SortOrder(sort_by))) :
              call' = Response("blogs", args,
                               [status |-> "page", blogs |-> blogs_list])
        /\ UNCHANGED blogs
        /\ ReadOnly

\* add_blog, GET: the empty form
AddBlogGet ==
    /\ call.fn = ""
    /\ call' = Response("add_blog", <<>>, [status |-> "form"])
    /\ UNCHANGED blogs
    /\ ReadOnly

\* the rows after view_blog if the route counted the view
ViewedBlogsCounted(rows, blog_id) ==
    {IF b.id = blog_id THEN [b EXCEPT !.view_count = @ + 1] ELSE b : b \in rows}

\* the rows after view_blog: the route queries the blog and its related
\* blogs and commits nothing
ViewedBlogs(rows, blog_id) == rows

\* the related blogs of the route: up to three other blogs of the author,
\* in no stated order
RelatedInRoute(blog) ==
    LET others == {b \in blogs : b.author_id = blog.author_id /\ b.id # blog.id}
    IN  {Limit(list, 3) : list \in Listings(others, {})}

\* view_blog, with the template's list of related blogs
ViewBlog(blog_id) ==
    /\ call.fn = ""
    /\ IF view_blog(blog_id) = "page"
       THEN \E related_blogs \in RelatedInRoute(CHOOSE b \in blogs : b.id = blog_id) :
               call' = Response("view_blog", blog_id,
                                [status |-> "page", related |-> related_blogs])
       ELSE call' = Response("view_blog", blog_id,
                             [status |-> view_blog(blog_id), related |-> <<>>])
    /\ blogs' = ViewedBlogs(blogs, blog_id)
    /\ ReadOnly

\* Blog.get_related_blogs(): the three other published blogs of the author
\* created last, newest first; a row created later has the larger id
GetRelatedBlogs(blog) ==
    LET others == {b \in blogs : /\ b.author_id = blog.author_id
                                 /\ b.id # blog.id
                                 /\ b.published}
    IN  /\ call.fn = ""
        /\ \E list \in Listings(others, Before(others, "id desc")) :
              call' = Response("get_related_blogs", blog.id,
                               [status |-> "page", related |-> Limit(list, 3)])
        /\ UNCHANGED blogs
        /\ ReadOnly

\* Author.query.get_or_404(author_id): the page of the author, or NotFound,
\* which the except branch turns into the flash 'Author not found.' and a
\* redirect to the listing
view_author(author_id) ==
    IF \E a \in authors : a.id = author_id THEN "page" ELSE "not_found"

\* view_author: the blogs of the author, newest first
ViewAuthor(author_id) ==
    LET own == {b \in blogs : b.author_id = author_id}
    IN  /\ call.fn = ""
        /\ IF view_author(author_id) = "page"
           THEN \E author_blogs \in Listings(own, Before(own, "id desc")) :
                   call' = Response("view_author", author_id,
                                    [status |-> "page", blogs |-> author_blogs])
           ELSE call' = Response("view_author", author_id,
                                 [status |-> view_author(author_id), blogs |-> <<>>])
        /\ UNCHANGED blogs
        /\ ReadOnly

\* api_blogs: every blog, newest first
ApiBlogs ==
    /\ call.fn = ""
    /\ \E list \in Listings(blogs, Before(blogs, "id desc")) :
          call' = Response("api_blogs", <<>>, [status |-> "success", blogs |-> list])
    /\ UNCHANGED blogs
    /\ ReadOnly

\* search_blogs: without a query the client is sent to the listing;
\* otherwise the blogs the query matches, newest first
SearchBlogs(args) ==
    LET query == Strip(ArgsGet(args, "q", <<>>))
        found == {b \in blogs : SearchMatches(b, query)}
    IN  /\ call.fn = ""
        /\ IF query = <<>>
           THEN call' = Response("search_blogs", query,
                                 [status |-> "redirect", blogs |-> <<>>])
           ELSE \E list \in Listings(found, Before(found, "id desc")) :
                   call' = Response("search_blogs", query,
                                    [status |-> "page", blogs |-> list])
        /\ UNCHANGED blogs
        /\ ReadOnly

\* the query strings of the listing: each sort value, one the route does
\* not know, and none; with a search, without one, and with a blank one
SortValues == {"newest", "oldest", "title", "author", "latest"}

ListingSearches == { <<"H","e">>, <<" ">> }

BlogsArgs ==
    {[sort |-> s] : s \in SortValues}
    \cup {[sort |-> s, search |-> x] : s \in SortValues, x \in ListingSearches}
    \cup {[search |-> x] : x \in ListingSearches}
    \cup {<<>>}

\* the queries of the search: part of a name, part of a title in the other
\* case, part of a sample title, the wildcards of LIKE, and none
SearchQueries ==
    { <<"A","l">>, <<"h","e","l","l","o">>, <<"W","e","b">>, <<"%">>, <<"_">>, <<>> }

SearchArgs == {[q |-> x] : x \in SearchQueries}

\* the ids a client can ask for: those of the table, and one of no row
BlogIds == {b.id : b \in blogs} \cup {NextId(blogs)}

\* the forms of the submissions beside the read requests
ReadSubmissions ==
    {v \in Submissions :
        /\ v.email = <<"a","@","b",".","i","o">>
        /\ Len(v.errors) <= 1
        /\ v.title \in {<<"H","e","l","l","o">>, <<"W","o","r","l","d">>, <<"H","e","l","l">>}}

\* the store changes while no answer is with its client
NextRead ==
    \/ call.fn = "" /\ \E p \in Procs : \E v \in ReadSubmissions : AddBlogPost(p, v)
    \/ call.fn = "" /\ \E p \in Procs : AddBlogAuthor(p)
    \/ call.fn = "" /\ \E p \in Procs : AddBlogBlog(p)
    \/ call.fn = "" /\ \E a \in authors : DeleteAuthor(a)
    \/ call.fn = "" /\ \E id \in AuthorIds :
                          ConstructBlog(<<" ","H","e","l","l","o"," ">>, FormContent, id)
    \/ call.fn = "" /\ SeedAuthors
    \/ call.fn = "" /\ SeedBlogs
    \/ Index
    \/ About
    \/ \E args \in BlogsArgs : Blogs(args)
    \/ AddBlogGet
    \/ \E id \in BlogIds : ViewBlog(id)
    \/ \E b \in blogs : GetRelatedBlogs(b)
    \/ \E id \in AuthorIds : ViewAuthor(id)
    \/ ApiBlogs
    \/ \E args \in SearchArgs : SearchBlogs(args)
    \/ Return

SpecRead == Init /\ [][NextRead]_vars

---------------------------------------------------------------------------
(* The specification of the functions: _generate_slug, _generate_excerpt   *)
(* and validate_date called on their own, on either kind of platform       *)

\* how far around a limit of the code the arguments are taken
Near == 2

\* how long the short titles are
ShortLen == 3

\* n times the character c
Rep(c, n) == [i \in 1..n |-> c]

\* the characters of the titles: a letter in either case, a word character
\* that is no letter, the separators and a character the slug drops
TitleChars == {"a", "B", "_", "-", " ", "!"}

\* every text of these characters up to a length
RECURSIVE TextsUpTo(_, _)
TextsUpTo(chars, n) ==
    IF n = 0 THEN {<<>>}
    ELSE LET shorter == TextsUpTo(chars, n - 1)
         IN  shorter \cup {Append(t, c) : t \in shorter, c \in chars}

\* the titles: the short ones, and the short ones after a run of letters
\* that ends near the limit of the slug
SlugTitles ==
    LET short == TextsUpTo(TitleChars, ShortLen)
    IN  short \cup {Rep("a", n) \o t :
                       n \in (SlugMaxLen - Near)..(SlugMaxLen + 1), t \in short}

\* a run of n letters with the characters c1, c2 and c3 at the positions
\* m1, m2 and m2 + 1
Marked(n, m1, c1, m2, c2, c3) ==
    [i \in 1..n |-> IF i = m1 THEN c1
                    ELSE IF i = m2 THEN c2
                    ELSE IF i = m2 + 1 THEN c3 ELSE "a"]

\* the contents: short ones and ones around 150 characters, with or without
\* the end of a sentence near index 100 and whitespace near index 150
ExcerptContents ==
    {Marked(n, m1, c1, m2, c2, c3) :
        n \in {2 * Near + 1} \cup ((ExcerptLen - 1)..(ExcerptLen + Near + 2)),
        m1 \in (SentenceBreakMin - Near + 2)..(SentenceBreakMin + Near + 1),
        c1 \in {".", "!", "?", "a"},
        m2 \in (ExcerptLen - Near - 1)..(ExcerptLen + 1),
        c2 \in {" ", "\n", "a"},
        c3 \in {" ", "a"}}

\* the fields of the dates as they can be typed
YearTexts ==
    { <<"2","0","2","4">>, <<"2","0","2","3">>, <<"0","0","0","1">>,
      <<"0","9","9","9">>, <<"9","9","9">>, <<"0","0","0","0">> }

MonthTexts == { <<"0","1">>, <<"1">>, <<"0","2">>, <<"1","2">>, <<"1","3">> }

DayTexts == { <<"1","5">>, <<"5">>, <<" ","5">>, <<"2","9">>, <<"3","1">>, <<"0","0">> }

\* the fields in the order of a format, its separator between them
DateText(fmt, y, m, d) ==
    LET field(f) == IF f = "Y" THEN y ELSE IF f = "m" THEN m ELSE d
    IN  field(fmt.order[1]) \o <<fmt.sep>> \o field(fmt.order[2])
        \o <<fmt.sep>> \o field(fmt.order[3])

\* the dates: every field above in each of the three formats, and texts
\* that are no date in any of them
DateTexts ==
    {DateText(DateFormats[i], y, m, d) :
        i \in 1..3, y \in YearTexts, m \in MonthTexts, d \in DayTexts}
    \cup { <<"s","o","o","n">>, <<>>, <<"2","0","2","4","-","0","1">>,
           <<"2","0","2","4","/","0","1","/","1","5">>,
           <<"1","5",".","0","1",".","2","0","2","4">> }

\* the answer of a function to its caller: the argument, the result, and
\* the result of the function on its result
Answer(fn, arg, out, again) == [fn |-> fn, arg |-> arg, out |-> out, again |-> again]

CallGenerateSlug(title) ==
    /\ call.fn = ""
    /\ call' = Answer("generate_slug", title, generate_slug(title),
                      generate_slug(generate_slug(title)))
    /\ UNCHANGED <<authors, blogs, req, initdb, seed, counter, hist, nDone, ops, nCalls,
                   calls, padYear>>

CallGenerateExcerpt(content) ==
    /\ call.fn = ""
    /\ call' = Answer("generate_excerpt", content, generate_excerpt(content),
                      generate_excerpt(generate_excerpt(content)))
    /\ UNCHANGED <<authors, blogs, req, initdb, seed, counter, hist, nDone, ops, nCalls,
                   calls, padYear>>

\* validate_date(d), and validate_date of its result when that is a date
CallValidateDate(date_string) ==
    LET out == validate_date(date_string, padYear)
    IN  /\ call.fn = ""
        /\ call' = Answer("validate_date", date_string, out,
                          IF out = None THEN None ELSE validate_date(out, padYear))
        /\ UNCHANGED <<authors, blogs, req, initdb, seed, counter, hist, nDone, ops,
                       nCalls, calls, padYear>>

\* as Init, on a platform of either kind
InitFunctions ==
    /\ authors = {}
    /\ blogs = {}
    /\ req = [p \in Procs |-> IdleReq]
    /\ initdb = IdleCmd
    /\ seed = IdleCmd
    /\ counter = [p \in Procs |-> IdleCounter]
    /\ hist = <<>>
    /\ nDone = 0
    /\ ops = 0
    /\ nCalls = 0
    /\ calls = <<>>
    /\ padYear \in BOOLEAN
    /\ call = NoCall

NextFunctions ==
    \/ \E t \in SlugTitles : CallGenerateSlug(t)
    \/ \E c \in ExcerptContents : CallGenerateExcerpt(c)
    \/ \E d \in DateTexts : CallValidateDate(d)
    \/ Return

SpecFunctions == InitFunctions /\ [][NextFunctions]_vars

---------------------------------------------------------------------------
(* The claims                                                              *)

\* the operation that finished last, and the one before it
Last == hist[Len(hist)]

Prev == hist[Len(hist) - 1]

\* no request and no command is in the middle of its work
Quiet ==
    /\ \A p \in Procs : req[p].pc = "idle"
    /\ initdb.pc = "idle"
    /\ seed.pc = "idle"

\* the last two operations are add_blog submissions that passed validation
\* and ran one after the other, with nothing else running beside them
TwoSuccessivePosts ==
    /\ Len(hist) = 2
    /\ Quiet
    /\ Prev.op = "add_blog" /\ Last.op = "add_blog"
    /\ Prev.resp # "form_errors" /\ Last.resp # "form_errors"
    /\ Prev.start = nDone - 2
    /\ Last.start = nDone - 1

\* the blogs stored under a title for an author
BlogsOf(title, author_id) ==
    {b \in blogs : b.title = title /\ b.author_id = author_id}

\* C1: two successive valid submissions that carry the same email, as typed
\* and in any letter case, with different names and titles whose slugs are
\* free, leave exactly one Author for that email, named as the second
\* submission says, and both blogs stored under that Author.
C1_SameEmailTwice ==
    (/\ TwoSuccessivePosts
     /\ Prev.email = Last.email
     /\ Prev.name # Last.name
     /\ generate_slug(Prev.title) # generate_slug(Last.title)
     /\ ~Prev.slugTaken /\ ~Last.slugTaken)
    => /\ Cardinality({a \in authors : a.email = Lower(Last.email)}) = 1
       /\ \A a \in authors :
             a.email = Lower(Last.email)
             => /\ a.name = Last.name
                /\ BlogsOf(Prev.title, a.id) # {}
                /\ BlogsOf(Last.title, a.id) # {}

\* C2: a submission that passed validation and then failed, here on a slug
\* that the submission before it had stored, has committed no Author: none
\* inserted, none renamed.
C2_FailedRequestWritesNothing ==
    (/\ TwoSuccessivePosts
     /\ Prev.resp = "published"
     /\ Last.resp = "error")
    => ~Last.wroteAuthor

\* C3: two submissions with the same unseen email, typed in lower case, and
\* titles of different slugs, running at the same time on an empty store,
\* are both published, under one Author.
C3_ConcurrentSameEmail ==
    (/\ Len(hist) = 2 /\ nDone = 2 /\ ops = 2 /\ Quiet
     /\ Prev.op = "add_blog" /\ Last.op = "add_blog"
     /\ Prev.resp # "form_errors" /\ Last.resp # "form_errors"
     /\ Prev.start = 0 /\ Last.start = 0
     /\ Prev.email = Last.email
     /\ Last.email = Lower(Last.email)
     /\ generate_slug(Prev.title) # generate_slug(Last.title))
    => /\ Prev.resp = "published" /\ Last.resp = "published"
       /\ Cardinality({a \in authors : a.email = Last.email}) = 1
       /\ Cardinality(blogs) = 2

\* C4: no two blogs share a slug and no two authors share an email; a
\* submission whose slug is stored already adds no blog and is answered by
\* the failure branch of the handler.
C4_SlugAndEmailUnique ==
    /\ \A b1, b2 \in blogs : b1.slug = b2.slug => b1 = b2
    /\ \A a1, a2 \in authors : a1.email = a2.email => a1 = a2
    /\ (hist # <<>> /\ Last.op = "add_blog" /\ Last.slugTaken)
       => (Last.resp = "error" /\ ~Last.wroteBlog)

\* a submission has just met a slug that was stored already
C4_Witness ==
    /\ hist # <<>>
    /\ Last.op = "add_blog" /\ Last.slugTaken /\ Last.resp = "error"
    /\ blogs # {}

\* C5: the author_id of every blog is the id of an Author of the table.
C5_NoOrphanBlog ==
    \A b \in blogs : \E a \in authors : a.id = b.author_id

\* an Author was deleted while blogs of its id were about to be inserted,
\* the insert was refused, and the blogs stored belong to the others
C5_Witness ==
    /\ Len(hist) = 2
    /\ Prev.op = "delete"
    /\ Last.op \in {"seed_database", "add_blog", "construct"}
    /\ Last.resp \in {"error", "IntegrityError"}
    /\ ~Last.slugTaken

\* C6: the step that deletes an Author removes the blogs of that Author and
\* no other blog, and view_blog then finds none of the removed ids.
C6_DeleteCascades ==
    [][\A a \in authors :
         (/\ nDone' = nDone + 1
          /\ hist'[Len(hist')].op = "delete"
          /\ hist'[Len(hist')].author = a.id)
         => /\ blogs' = {b \in blogs : b.author_id # a.id}
            /\ \A b \in blogs : b.author_id = a.id => view_blog(b.id)' = "not_found"]_vars

\* an Author with blogs was deleted, blogs of other authors are left, and
\* the ids removed are not found
C6_Witness ==
    /\ hist # <<>>
    /\ Last.op = "delete"
    /\ Last.removed # {}
    /\ blogs # {}
    /\ \A id \in Last.removed : view_blog(id) = "not_found"

\* C7: a submission that breaks a field rule is answered with the form and
\* at least one message, and has committed neither an Author nor a Blog; no
\* such submission is ever past validation.
C7_InvalidFormChangesNothing ==
    /\ \A p \in Procs : req[p].pc # "idle" => ~req[p].bad
    /\ (hist # <<>> /\ Last.op = "add_blog" /\ Last.bad)
       => /\ Last.resp = "form_errors"
          /\ Last.nerr >= 1
          /\ ~Last.wroteAuthor
          /\ ~Last.wroteBlog

\* a form with several broken fields was answered, on a store that holds rows
C7_Witness ==
    /\ hist # <<>>
    /\ Last.op = "add_blog" /\ Last.bad /\ Last.resp = "form_errors"
    /\ Last.nerr > 1
    /\ authors # {} /\ blogs # {}

\* C8: every stored blog has a trimmed title of at least 5 and a trimmed
\* content of at least 10 characters; a creation with a trimmed title of 4
\* characters fails validation, in add_blog and in the constructor, and one
\* with a trimmed title of 5 and good other fields passes it.
C8_TitleAndContentMinimum ==
    /\ \A b \in blogs : Len(Strip(b.title)) >= 5 /\ Len(Strip(b.content)) >= 10
    /\ (hist # <<>> /\ Last.op = "add_blog" /\ Last.tlen = 4)
       => (Last.resp = "form_errors" /\ ~Last.wroteBlog)
    /\ (hist # <<>> /\ Last.op = "construct" /\ Last.tlen = 4)
       => (Last.resp = "ValueError" /\ ~Last.wroteBlog)
    /\ (hist # <<>> /\ Last.op = "add_blog" /\ Last.tlen = 5 /\ ~Last.bad)
       => Last.resp # "form_errors"
    /\ (hist # <<>> /\ Last.op = "construct" /\ Last.tlen = 5 /\ ~Last.bad)
       => Last.resp # "ValueError"

\* a Blog with a title of exactly 5 characters was built directly and stored
C8_Witness ==
    /\ hist # <<>>
    /\ Last.op = "construct" /\ Last.tlen = 5 /\ Last.resp = "created"
    /\ \E b \in blogs : Len(b.title) = 5 /\ Len(b.content) = 10
\* no counter method is between its load and its commit
CountersIdle == \A p \in Procs : counter[p].pc = "idle"

\* the step in which decrement_like_count returns on an object whose
\* like_count is 0
DecrementAtZero ==
    \E p \in Procs :
        /\ counter[p].pc = "loaded"
        /\ counter[p].method = "decrement_like_count"
        /\ counter[p].like_count = 0
        /\ counter'[p].pc = "idle"

\* C9: whatever the calls of the three counter methods and however they
\* interleave, no step leaves a view_count or a like_count below 0, and a
\* decrement_like_count on a like_count of 0 changes no row.
C9_CountersNotNegative ==
    [][/\ \A b \in blogs' : b.view_count >= 0 /\ b.like_count >= 0
       /\ DecrementAtZero => UNCHANGED <<authors, blogs>>]_vars

\* a blog was liked, the like was taken back, and a further
\* decrement_like_count found like_count at 0
C9_Witness ==
    \E b \in blogs :
        /\ CallsOn(b.id).like > 0
        /\ CallsOn(b.id).unlike > 0
        /\ CallsOn(b.id).floor > 0
        /\ b.like_count = 0

\* C10: once the increments of concurrent requests have all committed, the
\* view_count of a blog is the number of increment_view_count calls on it,
\* and its like_count the number of increment_like_count calls when no like
\* was taken back: the counters started at 0 and no increment is lost.
C10_NoLostIncrement ==
    (/\ CountersIdle
     /\ nDone = Len(hist)
     /\ \A i \in 1..Len(hist) : hist[i].op # "delete")
    => \A b \in blogs :
         /\ b.view_count = CallsOn(b.id).view
         /\ CallsOn(b.id).unlike = 0 => b.like_count = CallsOn(b.id).like

\* C15: for every title the slug has at most 50 characters, and the slug of
\* the slug is the slug itself, also when the cut to 50 characters falls on
\* or beside a hyphen.
C15_SlugIdempotent ==
    call.fn = "generate_slug"
    => /\ Len(call.out) <= 50
       /\ call.again = call.out

\* a title whose slug was cut to 50 characters and ends in the hyphen the
\* cut left there
C15_Witness ==
    /\ call.fn = "generate_slug"
    /\ Len(call.arg) > 50
    /\ Len(call.out) = 50
    /\ call.out[50] = "-"
    /\ call.again = call.out

\* C16: for every content the excerpt of the excerpt is the excerpt itself,
\* also when the excerpt ends in the appended ellipsis.
C16_ExcerptStable ==
    call.fn = "generate_excerpt" => call.again = call.out

\* the date of a text in the first of the three formats that parses it
FirstParse(text) ==
    LET parsed == [i \in 1..3 |->
                      Strptime(text, DateFormats[i].sep, DateFormats[i].order)]
    IN  IF parsed[1].ok THEN parsed[1]
        ELSE IF parsed[2].ok THEN parsed[2]
        ELSE parsed[3]

\* a date written as DD-MM-YYYY
Canonical(dt) ==
    ZeroPad(dt.d, 2) \o <<"-">> \o ZeroPad(dt.m, 2) \o <<"-">> \o ZeroPad(dt.y, 4)

\* C17: validate_date gives the date of the first of YYYY-MM-DD, DD-MM-YYYY
\* and MM/DD/YYYY that parses the text, written as DD-MM-YYYY, and None when
\* none parses it; and validate_date of a result that is a date is that
\* result again.
C17_DateNormalized ==
    call.fn = "validate_date"
    => /\ IF FirstParse(call.arg).ok
          THEN call.out = Canonical(FirstParse(call.arg))
          ELSE call.out = None
       /\ call.out # None => call.again = call.out

\* the rightmost position, counted from 0, of one of the characters in a
\* text, or -1
Rightmost(text, chars) ==
    LET at == {i \in 0..(Len(text) - 1) : text[i + 1] \in chars}
    IN  IF at = {} THEN -1 ELSE CHOOSE i \in at : \A j \in at : j <= i

\* the excerpt as the rule gives it for the words w of a content
ExcerptByRule(w) ==
    LET p == SubSeq(w, 1, 150)
        i == Rightmost(p, {".", "!", "?"})
        sp == Rightmost(p, {" "})
    IN  IF Len(w) <= 150 THEN w
        ELSE IF i > 100 THEN SubSeq(p, 1, i + 1)
        ELSE IF sp > 0 THEN SubSeq(p, 1, sp) \o <<".", ".", ".">>
        ELSE p \o <<".", ".", ".">>

\* C18: with w the content after its whitespace runs are collapsed, the
\* excerpt is w when w has at most 150 characters; otherwise, with p the
\* first 150 characters of w and i the rightmost index of '.', '!' or '?'
\* in p, it is p up to i when i > 100, else p cut at its rightmost space
\* with '...' appended, or p with '...' appended when p has no such space.
\* It has at most 153 characters, which the column of 300 holds.
C18_ExcerptRule ==
    call.fn = "generate_excerpt"
    => /\ call.out = ExcerptByRule(JoinWords(call.arg))
       /\ Len(call.out) <= 153
       /\ Len(call.out) <= ExcerptColumn

\* a content of more than 150 characters was cut at the end of a sentence
\* at index 101, the first index that counts as far enough in
C18_Witness ==
    /\ call.fn = "generate_excerpt"
    /\ Len(JoinWords(call.arg)) > 150
    /\ Len(call.out) = 102
    /\ call.out[102] \in {".", "!", "?"}

\* s occurs in text, character for character
Contains(text, s) ==
    \E k \in 0..(Len(text) - Len(s)) : \A i \in 1..Len(s) : text[k + i] = s[i]

\* the ids of the blogs with s in the title, in the content or in the name
\* of the author
BlogsContaining(s) ==
    {b.id : b \in {x \in blogs :
        \/ Contains(x.title, s)
        \/ Contains(x.content, s)
        \/ \E a \in authors : a.id = x.author_id /\ Contains(a.name, s)}}

\* C11: for a search string that is not empty, the listing with search=s
\* and the search with q=s return exactly the blogs whose title, content or
\* author name contains s.
C11_SearchExact ==
    /\ (call.fn = "blogs" /\ Strip(ArgsGet(call.arg, "search", <<>>)) # <<>>)
       => Range(call.out.blogs) = BlogsContaining(Strip(call.arg.search))
    /\ (call.fn = "search_blogs" /\ call.arg # <<>>)
       => Range(call.out.blogs) = BlogsContaining(call.arg)

\* the row of a blog id
BlogOf(id) == CHOOSE b \in blogs : b.id = id

\* the rows a and b may follow each other in this order under a sort value
\* of the listing; none and any value not named sort as newest
InSortOrder(args, a, b) ==
    IF "sort" \notin DOMAIN args THEN a.id > b.id
    ELSE IF args.sort = "author" THEN ~TextLess(AuthorOf(b).name, AuthorOf(a).name)
    ELSE IF args.sort = "oldest" THEN a.id < b.id
    ELSE IF args.sort = "title" THEN ~TextLess(b.title, a.title)
    ELSE a.id > b.id

\* C12: the listing returns, for every sort value, each blog of the search
\* filter once and no other blog, ordered by author name for sort=author,
\* by ascending id for oldest, by title for title, and by descending id for
\* newest, for no sort and for a sort value it does not know.
C12_ListingSorted ==
    call.fn = "blogs"
    => LET list == call.out.blogs
           search == Strip(ArgsGet(call.arg, "search", <<>>))
           kept == IF search = <<>> THEN blogs
                   ELSE {b \in blogs : SearchMatches(b, search)}
       IN  /\ Range(list) = {b.id : b \in kept}
           /\ Len(list) = Cardinality(kept)
           /\ \A i, j \in 1..Len(list) :
                 i < j => InSortOrder(call.arg, BlogOf(list[i]), BlogOf(list[j]))

\* a listing sorted by author whose blog ids neither rise nor fall
C12_Witness ==
    /\ call.fn = "blogs"
    /\ "sort" \in DOMAIN call.arg
    /\ call.arg.sort = "author"
    /\ \E i \in 1..(Len(call.out.blogs) - 1) : call.out.blogs[i] < call.out.blogs[i + 1]
    /\ \E i \in 1..(Len(call.out.blogs) - 1) : call.out.blogs[i] > call.out.blogs[i + 1]

\* the ids in descending order
RECURSIVE Descending(_)
Descending(ids) ==
    IF ids = {} THEN <<>>
    ELSE LET top == CHOOSE i \in ids : \A j \in ids : j <= i
         IN  <<top>> \o Descending(ids \ {top})

\* C13: the related blogs of a blog, in the view_blog route and in
\* Blog.get_related_blogs, are at most 3, are blogs of the same author, do
\* not hold the blog itself, and are the other blogs of that author created
\* last, the newest first.
C13_RelatedNewestFirst ==
    (call.fn \in {"view_blog", "get_related_blogs"} /\ call.out.status = "page")
    => LET blog == BlogOf(call.arg)
           others == {b.id : b \in {x \in blogs :
                         x.author_id = blog.author_id /\ x.id # blog.id}}
           related == call.out.related
       IN  /\ Len(related) <= 3
           /\ \A i \in 1..Len(related) : related[i] \in others
           /\ related = Limit(Descending(others), 3)

\* C14: a view_blog or view_author request for an id that no row has gets
\* the not-found answer of the route, and leaves the authors and the blogs
\* as they were.
C14_MissingIdNotFound ==
    [][(/\ call.fn = ""
        /\ \/ call'.fn = "view_blog" /\ \A b \in blogs : b.id # call'.arg
           \/ call'.fn = "view_author" /\ \A a \in authors : a.id # call'.arg)
       => /\ call'.out.status = "not_found"
          /\ UNCHANGED <<authors, blogs>>]_vars

\* view_blog was asked for an id of no row, on a store that holds blogs
C14_Witness ==
    /\ call.fn = "view_blog"
    /\ call.out.status = "not_found"
    /\ blogs # {}
    /\ \A b \in blogs : b.id # call.arg

\* the routes that read
ReadRoutes ==
    {"index", "about", "blogs", "view_blog", "view_author", "api_blogs",
     "search_blogs", "add_blog"}

\* the step belongs to a POST of add_blog
AddBlogStep ==
    \/ req' # req
    \/ nDone' = nDone + 1 /\ hist'[Len(hist')].op = "add_blog"

\* C19: a read route, or a GET of add_blog, leaves every Author and every
\* Blog as it was, the counters of a viewed blog included; a POST of
\* add_blog removes no Blog and changes the title, content, date and
\* author_id of none.
C19_ReadsChangeNothing ==
    [][/\ (call.fn = "" /\ call'.fn \in ReadRoutes) => UNCHANGED <<authors, blogs>>
       /\ AddBlogStep
          => \A b \in blogs : \E c \in blogs' :
                /\ c.id = b.id /\ c.title = b.title /\ c.content = b.content
                /\ c.date = b.date /\ c.author_id = b.author_id]_vars

\* a blog published by add_blog beside an older blog was viewed, and its
\* view_count is as it was stored
C19_Witness ==
    /\ call.fn = "view_blog"
    /\ call.out.status = "page"
    /\ hist # <<>>
    /\ Last.op = "add_blog" /\ Last.resp = "published"
    /\ Cardinality(blogs) > 1
    /\ BlogOf(call.arg).view_count = 0

====
